---- MODULE Spec2Model ----
(***************************************************************************)
(* Model of the faucet auto-clicker: the numeric coercion utility, the     *)
(* element-wait primitive FreeBitcoinFaucet._get_elements, the page-state  *)
(* accessors built on it and the bonus activation of core.py.              *)
(*                                                                         *)
(* The browser page is the environment.  Every call re-queries the page    *)
(* (nothing is cached), so each action draws what the page shows during    *)
(* the call, runs the whole method on it and records the call: its         *)
(* arguments, what the page showed, the value returned, the exception      *)
(* that left the method, the log records and the DOM actions it made.      *)
(***************************************************************************)
EXTENDS Integers, Sequences, FiniteSets, TLC

VARIABLES op, args, env, ret, exc, log, acts

vars == <<op, args, env, ret, exc, log, acts>>

\* ------------------------------------------------------------------ bounds

\* longest string handed to str2num directly
MaxStrLen == 3
\* longest text content of a page element
MaxTextLen == 2
\* most polls of a wait before its timeout elapses
MaxPolls == 2
\* most bonuses in the mapping handed to activate_bonuses
MaxBonuses == 2
\* most dot-separated fields of a version string
MaxFields == 5
\* most parts the countdown timer shows
MaxParts == 3
\* largest ON_UNAVAILABLE_ATTEMPTS of the settings
MaxAttempts == 2
\* most turns of the open-site loop and of a call of is_refreshed when
\* ON_UNAVAILABLE_ATTEMPTS leaves them unbounded
MaxTries == 3
\* most attempts of one free play when FREE_PLAY_ATTEMPTS leaves them unbounded
MaxPlayAttempts == 2
\* most free plays of a run that FREE_PLAY_NUM leaves unbounded
MaxRounds == 2
\* largest size, in chunks, of a file to download
MaxSize == 2
\* most reward points a play costs or a balance holds
MaxPoints == 2

\* --------------------------------------------------------- python strings

\* Strings are sequences of characters.
Chars == {"0", "1", " ", ".", "-", "x", ",", "%"}

Digits == {"0", "1"}

DigitVal(c) == IF c = "1" THEN 1 ELSE 0

RECURSIVE StrsUpTo(_)
StrsUpTo(n) ==
    IF n = 0 THEN {<<>>}
    ELSE LET shorter == StrsUpTo(n - 1)
         IN  shorter \cup {Append(s, c) : s \in {t \in shorter : Len(t) = n - 1}, c \in Chars}

RECURSIVE Pow10(_)
Pow10(n) == IF n = 0 THEN 1 ELSE 10 * Pow10(n - 1)

\* str.lstrip() / str.rstrip() / str.strip() on whitespace
RECURSIVE LStrip(_)
LStrip(s) == IF s # <<>> /\ Head(s) = " " THEN LStrip(Tail(s)) ELSE s

RECURSIVE RStrip(_)
RStrip(s) ==
    IF s # <<>> /\ s[Len(s)] = " " THEN RStrip(SubSeq(s, 1, Len(s) - 1)) ELSE s

Strip(s) == RStrip(LStrip(s))

\* str.replace(c, '')
Remove(s, c) == SelectSeq(s, LAMBDA ch : ch # c)

\* str.split(): the whitespace-separated words, in order
RECURSIVE Split(_)
Split(s) ==
    LET t == LStrip(s)
    IN  IF t = <<>> THEN <<>>
        ELSE LET ends == {i \in 1..Len(t) : t[i] = " "}
                 n    == IF ends = {} THEN Len(t)
                         ELSE (CHOOSE i \in ends : \A j \in ends : i <= j) - 1
             IN  <<SubSeq(t, 1, n)>> \o Split(SubSeq(t, n + 1, Len(t)))

\* the digits of s read as a decimal numeral
RECURSIVE DigitsVal(_)
DigitsVal(s) ==
    IF s = <<>> THEN 0
    ELSE 10 * DigitsVal(SubSeq(s, 1, Len(s) - 1)) + DigitVal(s[Len(s)])

Unsigned(s) == IF s # <<>> /\ Head(s) = "-" THEN Tail(s) ELSE s

Sign(s) == IF s # <<>> /\ Head(s) = "-" THEN -1 ELSE 1

\* int(string) accepts: optional blanks, optional sign, one or more digits
IntLiteral(s) ==
    LET u == Unsigned(Strip(s))
    IN  u # <<>> /\ \A i \in 1..Len(u) : u[i] \in Digits

IntValue(s) == Sign(Strip(s)) * DigitsVal(Unsigned(Strip(s)))

\* Decimal(string) and float(string) accept: optional blanks, optional sign,
\* digits with at most one decimal point and at least one digit
DecLiteral(s) ==
    LET u == Unsigned(Strip(s))
    IN  /\ \A i \in 1..Len(u) : u[i] \in Digits \cup {"."}
        /\ Cardinality({i \in 1..Len(u) : u[i] = "."}) <= 1
        /\ \E i \in 1..Len(u) : u[i] \in Digits

\* A Decimal or float is kept as its value times DecScale.
DecScale == Pow10(IF MaxStrLen > MaxTextLen THEN MaxStrLen ELSE MaxTextLen)

DecValue(s) ==
    LET u    == Unsigned(Strip(s))
        dots == {i \in 1..Len(u) : u[i] = "."}
        frac == IF dots = {} THEN 0 ELSE Len(u) - (CHOOSE i \in dots : TRUE)
    IN  Sign(Strip(s)) * DigitsVal(Remove(u, ".")) * (DecScale \div Pow10(frac))

NumTypes == {"int", "Decimal", "float"}

\* obj(string): the converted number, or the exception the constructor raises
Construct(string, obj) ==
    IF obj = "int"
    THEN IF IntLiteral(string) THEN [val |-> IntValue(string), exc |-> ""]
         ELSE [val |-> 0, exc |-> "ValueError"]
    ELSE IF DecLiteral(string) THEN [val |-> DecValue(string), exc |-> ""]
         ELSE [val |-> 0, exc |-> IF obj = "Decimal" THEN "InvalidOperation" ELSE "ValueError"]

\* a log record: its level, its message and whether its arguments fit the
\* placeholders of its format
LogRec(level, msg, nargs, nslots) == [level |-> level, msg |-> msg, ok |-> nargs = nslots]

\* the outcome of a method: value returned, exception raised, records logged
\* and DOM actions made (click, clear, send_keys)
OutA(r, e, l, a) == [ret |-> r, exc |-> e, log |-> l, acts |-> a]

Out(r, e, l) == OutA(r, e, l, <<>>)

\* an exception leaving a method: there is no value
Raise(e, l) == OutA(<<>>, e, l, <<>>)

\* str2num, catching ValueError only
str2num_only_ValueError(string, obj) ==
    IF Strip(string) # <<>>
    THEN LET c == Construct(string, obj)
         IN  IF c.exc = "" THEN Out(c.val, "", <<>>)
             ELSE IF c.exc = "ValueError" THEN Out(0, "", <<LogRec(40, "is not suitable for conversion", 2, 2)>>)
             ELSE Out(0, c.exc, <<>>)
    ELSE Out(0, "", <<>>)

str2num(string, obj) ==
    IF Strip(string) # <<>>
    THEN LET c == Construct(string, obj)
         IN  IF c.exc = "" THEN Out(c.val, "", <<>>)
             ELSE IF c.exc \in {"ValueError", "InvalidOperation"}
                  THEN Out(0, "", <<LogRec(40, "is not suitable for conversion", 2, 2)>>)
                  ELSE Out(0, c.exc, <<>>)
    ELSE Out(0, "", <<>>)

\* ------------------------------------------------------ the wait primitive

VALID_LOG_LEVELS == {0, 10, 20, 30, 40, 50}

\* str(self): the class name with 'inFaucet' replaced by '.in'
StrSelf == <<"F", "r", "e", "e", "B", "i", "t", "c", "o", ".", "i", "n">>

\* A DOM element reference: its text content and whether the reference has
\* gone stale.  TrueElem is the value True standing in a result list.
Elem(text, stale) == [tag |-> "element", text |-> text, stale |-> stale]

TrueElem == [tag |-> "True", text |-> <<>>, stale |-> FALSE]

\* What one evaluation of a condition gives: a value (an element, a list of
\* elements, True, False) or an exception.
Poll(k, els) == [k |-> k, els |-> els]

\* the conditions the faucet waits on, and what one evaluation can give
ECs == {"presence_of_all_elements_located", "presence_of_element_located",
        "displayed_of_element", "not_displayed_of_element",
        "frame_to_be_available_and_switch_to_it",
        "value_to_be_equal_to_attribute_value_of_element", "title_contains_lower"}

PollKinds(ec) ==
    CASE ec = "presence_of_all_elements_located" -> {"list", "empty", "StaleElementReferenceException"}
      [] ec = "presence_of_element_located" ->
             {"elem", "NoSuchElementException", "StaleElementReferenceException"}
      [] ec = "displayed_of_element" -> {"elem", "False", "NoSuchElementException"}
      [] ec = "not_displayed_of_element" -> {"elem", "False", "True"}
      [] ec = "frame_to_be_available_and_switch_to_it" -> {"True", "False", "NoSuchElementException"}
      [] ec = "value_to_be_equal_to_attribute_value_of_element" ->
             {"True", "False", "NoSuchElementException"}
      [] OTHER -> {"True", "False"}

Truthy(p) == p.k \in {"elem", "list", "True"}

\* WebDriverWait.until: the first truthy value; NoSuchElementException is
\* ignored, any other exception leaves the wait, the timeout ends it
RECURSIVE Until(_)
Until(polls) ==
    IF polls = <<>> THEN Poll("TimeoutException", <<>>)
    ELSE LET p == Head(polls)
         IN  IF p.k = "StaleElementReferenceException" THEN p
             ELSE IF Truthy(p) THEN p
             ELSE Until(Tail(polls))

\* WebDriverWait.until_not: the first falsy value itself, or True when the
\* condition raises NoSuchElementException
RECURSIVE UntilNot(_)
UntilNot(polls) ==
    IF polls = <<>> THEN Poll("TimeoutException", <<>>)
    ELSE LET p == Head(polls)
         IN  IF p.k = "StaleElementReferenceException" THEN p
             ELSE IF p.k = "NoSuchElementException" THEN Poll("True", <<>>)
             ELSE IF ~Truthy(p) THEN p
             ELSE UntilNot(Tail(polls))

\* the keywords of one _get_elements call
Kwds(wait_until, ec, locator, attr_or_prop, value, log_level) ==
    [wait_until |-> wait_until, ec |-> ec, locator |-> locator,
     attr_or_prop |-> attr_or_prop, value |-> value, log_level |-> log_level]

EcArgs(kwds) ==
    (IF kwds.locator # <<>> THEN <<kwds.locator>> ELSE <<>>)
        \o (IF kwds.attr_or_prop # <<>> THEN <<kwds.attr_or_prop>> ELSE <<>>)
        \o (IF kwds.value # <<>> THEN <<kwds.value>> ELSE <<>>)

\* elements if isinstance(elements, list) else [elements] if elements else []
AsList(p) ==
    CASE p.k \in {"list", "empty", "elem"} -> p.els
      [] p.k = "True" -> <<TrueElem>>
      [] OTHER -> <<>>

get_elements(kwds, polls) ==
    LET ec_args == EcArgs(kwds)
        got     == IF kwds.wait_until THEN Until(polls) ELSE UntilNot(polls)
    IN  CASE got.k = "TimeoutException" ->
                 IF ec_args = <<>> THEN Raise("IndexError", <<>>)
                 ELSE Out(<<>>, "", <<LogRec(kwds.log_level, "None of the elements were found", Len(ec_args[1]) + 1, 3)>>)
          [] got.k = "StaleElementReferenceException" ->
                 IF ec_args = <<>> THEN Raise("IndexError", <<>>)
                 ELSE Out(<<>>, "", <<LogRec(kwds.log_level, "Reference to the DOM element was lost", Len(ec_args[1]), 2)>>)
          [] OTHER -> Out(AsList(got), "", <<>>)

\* the keywords the faucet passes with each condition
KwdsOf(ec, wait_until, log_level) ==
    CASE ec = "title_contains_lower" -> Kwds(wait_until, ec, <<>>, <<>>, StrSelf, log_level)
      [] ec = "value_to_be_equal_to_attribute_value_of_element" ->
             Kwds(wait_until, ec, <<"id", "checkbox">>, <<"aria-checked">>, <<"true">>, log_level)
      [] OTHER -> Kwds(wait_until, ec, <<"id", "locator_value">>, <<>>, <<>>, log_level)

\* ----------------------------------------------------------------- the page

\* the texts an element of the page can hold
Texts == StrsUpTo(MaxTextLen)

AnElem == Elem(<<"1">>, FALSE)

\* what one evaluation of condition ec can give on the page
PollsOf(ec) ==
    {Poll(k, CASE k = "elem" -> <<AnElem>>
               [] k = "list" -> <<AnElem, AnElem>>
               [] OTHER -> <<>>) : k \in PollKinds(ec)}

RECURSIVE SeqsUpTo(_, _)
SeqsUpTo(S, n) ==
    IF n = 0 THEN {<<>>}
    ELSE LET shorter == SeqsUpTo(S, n - 1)
         IN  shorter \cup {Append(s, x) : s \in {t \in shorter : Len(t) = n - 1}, x \in S}

\* the evaluations of one wait: at least one, at most MaxPolls
PollSeqs(ec) == SeqsUpTo(PollsOf(ec), MaxPolls) \ {<<>>}

\* the evaluation of a condition on elements els of the page: they are
\* there (found at once) or not (never found, the wait times out)
PollsFor(ec, els) ==
    IF els = <<>>
    THEN <<Poll(IF ec = "presence_of_all_elements_located" THEN "empty"
                ELSE "NoSuchElementException", <<>>)>>
    ELSE <<Poll(IF ec = "presence_of_all_elements_located" THEN "list" ELSE "elem", els)>>

\* ------------------------------------------------------ expected conditions

\* An element of the page as the conditions of ec.py see it: whether
\* find_element finds it, whether the reference goes stale while it is looked
\* at, what is_displayed() answers and the value of the css property
\* "display".  An element the browser reports as displayed does not have
\* display "none".
Nodes ==
    {n \in [present : BOOLEAN, stale : BOOLEAN, is_displayed : BOOLEAN, display : {"none", "block"}] :
        /\ ~(n.is_displayed /\ n.display = "none")
        /\ ~n.present => (~n.stale /\ ~n.is_displayed /\ n.display = "none")}

\* ec.displayed_of_element(locator)._predicate on the element
displayed_of_element(node) ==
    IF ~node.present THEN Poll("NoSuchElementException", <<>>)
    ELSE IF node.stale THEN Poll("False", <<>>)
    ELSE IF node.is_displayed \/ node.display # "none" THEN Poll("elem", <<AnElem>>)
    ELSE Poll("False", <<>>)

\* ec.not_displayed_of_element(locator)._predicate on the element
not_displayed_of_element(node) ==
    IF ~node.present \/ node.stale THEN Poll("True", <<>>)
    ELSE IF ~node.is_displayed \/ node.display = "none" THEN Poll("elem", <<AnElem>>)
    ELSE Poll("False", <<>>)

\* ------------------------------------------------------ page-state accessors

\* element.get_property / get_attribute: the content, unless the reference
\* has gone stale
Val(v) == [exc |-> "", val |-> v]

Exc(e) == [exc |-> e, val |-> <<>>]

GetProperty(el) == IF el.stale THEN Exc("StaleElementReferenceException") ELSE Val(el.text)

\* text.split()[0]
FirstWord(text) ==
    IF Split(text) = <<>> THEN Exc("IndexError") ELSE Val(Split(text)[1])

\* how an accessor prepares the text it read for str2num
Prepare(prep, text) ==
    CASE prep = "strip" -> Val(Strip(text))
      [] prep = "replace(',', '').strip" -> Val(Strip(Remove(text, ",")))
      [] prep = "split[0]" -> FirstWord(text)
      [] prep = "replace('%', '').split[0]" -> FirstWord(Remove(text, "%"))
      [] OTHER -> FirstWord(Remove(text, ","))

\* str2num(<prepared textContent of el>, obj)
NumOf(el, prep, obj) ==
    LET t == GetProperty(el)
    IN  IF t.exc # "" THEN Raise(t.exc, <<>>)
        ELSE LET p == Prepare(prep, t.val)
             IN  IF p.exc # "" THEN Raise(p.exc, <<>>) ELSE str2num(p.val, obj)

\* str2num(<prepared textContent of elements[0]>, obj) if elements else obj()
ReadNum(g, prep, obj) ==
    IF g.exc # "" THEN g
    ELSE IF g.ret = <<>> THEN Out(0, "", g.log)
    ELSE LET n == NumOf(g.ret[1], prep, obj)
         IN  OutA(n.ret, n.exc, g.log \o n.log, <<>>)

\* [str2num(<prepared textContent of e>) for e in elements]
RECURSIVE NumList(_, _)
NumList(els, prep) ==
    IF els = <<>> THEN Out(<<>>, "", <<>>)
    ELSE LET n == NumOf(Head(els), prep, "int")
         IN  IF n.exc # "" THEN Raise(n.exc, n.log)
             ELSE LET rest == NumList(Tail(els), prep)
                  IN  IF rest.exc # "" THEN Raise(rest.exc, n.log \o rest.log)
                      ELSE Out(<<n.ret>> \o rest.ret, "", n.log \o rest.log)

ReadNumList(g, prep) ==
    IF g.exc # "" THEN g
    ELSE LET l == NumList(g.ret, prep)
         IN  OutA(l.ret, l.exc, g.log \o l.log, <<>>)

Located(ec, polls, log_level) ==
    get_elements(Kwds(TRUE, ec, <<"locator", "locator_value">>, <<>>, <<>>, log_level), polls)

balance_btc(polls) ==
    ReadNum(Located("presence_of_all_elements_located", polls, 40), "strip", "Decimal")

balance_rp(polls) ==
    ReadNum(Located("presence_of_element_located", polls, 40), "replace(',', '').strip", "int")

balance_lt(polls) ==
    ReadNum(Located("presence_of_element_located", polls, 40), "replace(',', '').strip", "int")

get_winning(polls, obj) ==
    ReadNum(Located("presence_of_element_located", polls, 40), "strip", obj)

winning_wof(polls) ==
    ReadNum(Located("presence_of_element_located", polls, 10), "split[0]", "int")

free_play_cost(polls) ==
    ReadNum(Located("presence_of_element_located", polls, 40), "replace(',', '').strip", "int")

user_id(polls) ==
    LET g == Located("presence_of_element_located", polls, 40)
    IN  IF g.ret = <<>> THEN Out(<<>>, "", g.log)
        ELSE LET t == GetProperty(g.ret[1])
             IN  IF t.exc # "" THEN Raise(t.exc, g.log) ELSE Out(Strip(t.val), "", g.log)

get_bonus_keys(polls) ==
    ReadNumList(Located("presence_of_all_elements_located", polls, 40), "replace('%', '').split[0]")

get_bonus_costs(polls) ==
    ReadNumList(Located("presence_of_all_elements_located", polls, 40), "replace(',', '').split[0]")

get_bonus_buttons(polls) == Located("presence_of_all_elements_located", polls, 40)

\* ---------------------------------------------------- write-capable accessors

\* Python's None and a present value
None == <<>>

Some(x) == <<x>>

\* a DOM action made through the driver
Act(a, on) == [a |-> a, on |-> on, val |-> None]

\* 'checked' in element.get_attribute('class'), the class attribute being
\* kept as its list of class names
Checked(class) == \E i \in 1..Len(class) : class[i] = "checked"

\* _state_checkbox that clicks whenever a value is given
state_checkbox_always_clicks(page, value, if_success_log_level) ==
    LET g == Located("presence_of_element_located", PollsFor("presence_of_element_located", page.span), 40)
    IN  IF g.ret = <<>> THEN Out(None, "", g.log)
        ELSE IF g.ret[1].stale THEN Raise("StaleElementReferenceException", g.log)
        ELSE IF value = None THEN Out(Some(Checked(g.ret[1].text)), "", g.log)
        ELSE LET current == Checked(page.after.text)
             IN  OutA(Some(current), "",
                      g.log \o (IF current = value[1]
                                THEN <<LogRec(if_success_log_level, "checked", 2, 2)>> ELSE <<>>),
                      <<Act("click", "checkbox")>>)

\* _state_checkbox that takes the click for the new state instead of reading
\* the state again
state_checkbox_no_reread(page, value, if_success_log_level) ==
    LET g == Located("presence_of_element_located", PollsFor("presence_of_element_located", page.span), 40)
    IN  IF g.ret = <<>> THEN Out(None, "", g.log)
        ELSE IF g.ret[1].stale THEN Raise("StaleElementReferenceException", g.log)
        ELSE LET current == Checked(g.ret[1].text)
             IN  IF value = None THEN Out(Some(current), "", g.log)
                 ELSE IF current = value[1] \/ page.input = <<>>
                      THEN Out(Some(current), "",
                               g.log \o (IF current = value[1]
                                         THEN <<LogRec(if_success_log_level, "checked", 2, 2)>>
                                         ELSE <<>>))
                      ELSE OutA(Some(value[1]), "",
                                g.log \o <<LogRec(if_success_log_level, "checked", 2, 2)>>,
                                <<Act("click", "checkbox")>>)

\* _state_checkbox(locator_value, value, if_success_log_level): page.span is
\* the element holding the state, page.input the checkbox to click and
\* page.after the state element as it is once the checkbox has been clicked
state_checkbox(page, value, if_success_log_level) ==
    LET g == Located("presence_of_element_located", PollsFor("presence_of_element_located", page.span), 40)
    IN  IF g.ret = <<>> THEN Out(None, "", g.log)
        ELSE IF g.ret[1].stale THEN Raise("StaleElementReferenceException", g.log)
        ELSE LET current == Checked(g.ret[1].text)
                 success == <<LogRec(if_success_log_level, "checked", 2, 2)>>
             IN  IF value = None THEN Out(Some(current), "", g.log)
                 ELSE IF current = value[1] THEN Out(Some(current), "", g.log \o success)
                 ELSE LET h == Located("presence_of_element_located",
                                       PollsFor("presence_of_element_located", page.input), 40)
                      IN  IF h.ret = <<>> THEN Out(Some(current), "", g.log \o h.log)
                          ELSE IF h.ret[1].stale
                               THEN Raise("StaleElementReferenceException", g.log \o h.log)
                          ELSE IF page.after.stale
                               THEN OutA(<<>>, "StaleElementReferenceException", g.log \o h.log,
                                         <<Act("click", "checkbox")>>)
                          ELSE LET reread == Checked(page.after.text)
                               IN  OutA(Some(reread), "",
                                        g.log \o h.log \o (IF reread = value[1] THEN success ELSE <<>>),
                                        <<Act("click", "checkbox")>>)

\* _value_input_field(locator_value, value, if_success_log_level): page.field
\* is the input field and page.after the field as it is once it has been
\* cleared and typed into; the value '' asks for no change
value_input_field(page, value, if_success_log_level) ==
    LET g == get_elements(Kwds(TRUE, "displayed_of_element", <<"id", "locator_value">>, <<>>, <<>>, 40),
                          PollsFor("displayed_of_element", page.field))
    IN  IF g.ret = <<>> THEN Out(None, "", g.log)
        ELSE IF g.ret[1].stale THEN Raise("StaleElementReferenceException", g.log)
        ELSE LET current == g.ret[1].text
                 success == <<LogRec(if_success_log_level, "filled", 1, 1)>>
             IN  IF value = <<>> THEN Out(Some(current), "", g.log)
                 ELSE IF current = value THEN Out(Some(current), "", g.log \o success)
                 ELSE LET typed == <<Act("clear", "field"), Act("send_keys", "field")>>
                      IN  IF page.after.stale
                          THEN OutA(<<>>, "StaleElementReferenceException", g.log, typed)
                          ELSE OutA(Some(page.after.text), "",
                                    g.log \o (IF page.after.text = value THEN success ELSE <<>>),
                                    typed)

\* -------------------------------------------------------------- bonuses

VALID_BONUS_KEYS == {"btc", "lt", "wof"}

ALL == "presence_of_all_elements_located"

ONE == "presence_of_element_located"

Range(f) == {f[i] : i \in DOMAIN f}

\* list.index(x): the first place of x
Index(list, x) == CHOOSE i \in 1..Len(list) : list[i] = x /\ \A j \in 1..(i - 1) : list[j] # x

\* The rewards tab as one call sees it: the cells of the key, cost and button
\* columns of the bonus tables, per category the element naming the active
\* bonus (none when no bonus is active) and that element as it is once a
\* redeem button of the category has been clicked, the reward points and the
\* cost of a play without captcha.
Clicked(page, k) == [page EXCEPT !.active[k] = page.after[k]]

\* an outcome together with the page it leaves
On(out, page) ==
    [ret |-> out.ret, exc |-> out.exc, log |-> out.log, acts |-> out.acts, page |-> page]

\* The statements of a method run one after another: Only({e : x \in {v}})
\* is e with x standing for the value of v, computed once, as the assignment
\* x = v followed by the rest of the method.
Only(S) == CHOOSE r \in S : TRUE

\* _active_bonus.get_active_bonus_key
get_active_bonus_key(els, bonus_keys) ==
    Only({
        IF g.ret = <<>> THEN Out(Some(0), "", g.log)
        ELSE Only({
            IF n.exc # "" THEN Raise(n.exc, g.log \o n.log)
            ELSE IF n.ret \notin Range(bonus_keys)
                 THEN Out(None, "", g.log \o n.log \o <<LogRec(40, "was not identified", 1, 1)>>)
                 ELSE Out(Some(n.ret), "", g.log \o n.log)
            : n \in {NumOf(g.ret[1], "replace('%', '').split[0]", "int")}})
        : g \in {Located(ONE, PollsFor(ONE, els), 10)}})

\* The try block of _active_bonus: cost is the cost to report, current the
\* active key after it; an IndexError inside it is caught (cost 0, current
\* as before), any other exception leaves the method.
Tried(current, cost, e, l, a, page) ==
    [current |-> current, cost |-> cost, exc |-> e, log |-> l, acts |-> a, page |-> page]

Caught(e, l, a, page) ==
    IF e = "IndexError" THEN Tried(Some(0), 0, "", l, a, page)
    ELSE Tried(None, 0, e, l, a, page)

\* the click on the redeem button at place idx and the second reading of the
\* active key
click_and_reread(page, k, idx, cost, bonus_keys, l) ==
    Only({
        IF idx > Len(bo.ret) THEN Caught("IndexError", l \o bo.log, <<>>, page)
        ELSE IF bo.ret[idx].stale
             THEN Caught("StaleElementReferenceException", l \o bo.log, <<>>, page)
        ELSE Only({
            IF c2.exc # ""
            THEN Caught(c2.exc, l \o bo.log \o c2.log, <<Act("click", k)>>, Clicked(page, k))
            ELSE Tried(c2.ret, cost, "", l \o bo.log \o c2.log,
                       <<Act("click", k)>>, Clicked(page, k))
            : c2 \in {get_active_bonus_key(Clicked(page, k).active[k], bonus_keys)}})
        : bo \in {get_bonus_buttons(PollsFor(ALL, page.buttons))}})

\* the try block without the balance check
try_redeem_no_balance_check(page, k, value, captcha, bonus_keys) ==
    Only({
        IF co.exc # "" THEN Caught(co.exc, co.log, <<>>, page)
        ELSE IF Index(bonus_keys, value) > Len(co.ret) THEN Caught("IndexError", co.log, <<>>, page)
        ELSE click_and_reread(page, k, Index(bonus_keys, value),
                              co.ret[Index(bonus_keys, value)], bonus_keys, co.log)
        : co \in {get_bonus_costs(PollsFor(ALL, page.costs))}})

try_redeem(page, k, value, captcha, bonus_keys) ==
    Only({
        IF co.exc # "" THEN Caught(co.exc, co.log, <<>>, page)
        ELSE IF Index(bonus_keys, value) > Len(co.ret) THEN Caught("IndexError", co.log, <<>>, page)
        ELSE Only({
            IF fo.exc # "" THEN Caught(fo.exc, co.log \o fo.log, <<>>, page)
            ELSE Only({
                IF ro.exc # "" THEN Caught(ro.exc, co.log \o fo.log \o ro.log, <<>>, page)
                ELSE IF ~(co.ret[Index(bonus_keys, value)] + fo.ret <= ro.ret)
                     THEN Tried(Some(0), co.ret[Index(bonus_keys, value)], "",
                                co.log \o fo.log \o ro.log, <<>>, page)
                     ELSE click_and_reread(page, k, Index(bonus_keys, value),
                                           co.ret[Index(bonus_keys, value)], bonus_keys,
                                           co.log \o fo.log \o ro.log)
                : ro \in {balance_rp(PollsFor(ONE, page.rp))}})
            : fo \in {IF captcha THEN free_play_cost(PollsFor(ONE, page.fpc)) ELSE Out(0, "", <<>>)}})
        : co \in {get_bonus_costs(PollsFor(ALL, page.costs))}})

\* _active_bonus(locator_value, value, if_success_log_level) on the table of
\* category k; value 0 only reads the active key
active_bonus(page, k, value, captcha, if_success_log_level) ==
    Only({
        IF ko.exc # "" THEN On(ko, page)
        ELSE IF ko.ret = <<>> THEN On(Out(None, "", ko.log), page)
        ELSE IF value \notin Range(ko.ret) \cup {0} THEN On(Raise("ValueError", ko.log), page)
        ELSE Only({
            IF c1.exc # "" THEN On(Raise(c1.exc, ko.log \o c1.log), page)
            ELSE IF ~(c1.ret = Some(0) /\ value # 0)
                 THEN On(Out(c1.ret, "", ko.log \o c1.log), page)
            ELSE Only({
                IF t.exc # "" THEN On(OutA(<<>>, t.exc, ko.log \o c1.log \o t.log, t.acts), t.page)
                ELSE On(OutA(t.current, "",
                             ko.log \o c1.log \o t.log
                                 \o (IF t.current = Some(value)
                                     THEN <<LogRec(if_success_log_level, "activated", 2, 2)>>
                                     ELSE <<>>),
                             t.acts), t.page)
                : t \in {try_redeem(page, k, value, captcha, ko.ret)}})
            : c1 \in {get_active_bonus_key(page.active[k], ko.ret)}})
        : ko \in {get_bonus_keys(PollsFor(ALL, page.keys))}})

\* python truth of an active key: neither None nor 0
IsActive(state) == state # None /\ state # Some(0)

\* what activate_bonuses did: it set a bonus, or got the state of one
Did(a, k, state) == [a |-> a, on |-> k, val |-> state]

\* One turn of the loop of activate_bonuses, for the pair (k, v): the setter
\* when attempt holds, then the getter; its outcome carries the state read in
\* ret.
turn(page, k, v, captcha, attempt) ==
    Only({
        IF set.exc # ""
        THEN On(OutA(<<>>, set.exc, set.log, <<Did("set", k, Some(v))>> \o set.acts), set.page)
        ELSE Only({
            On(OutA(get.ret, get.exc, set.log \o get.log,
                    (IF attempt THEN <<Did("set", k, Some(v))>> ELSE <<>>) \o set.acts
                        \o (IF get.exc = "" THEN <<Did("get", k, get.ret)>> ELSE <<>>)),
               get.page)
            : get \in {active_bonus(set.page, k, 0, captcha, 10)}})
        : set \in {IF attempt THEN active_bonus(page, k, v, captcha, 20) ELSE On(Out(None, "", <<>>), page)}})

\* The loop of activate_bonuses over bonuses[i..], a list of (key, value)
\* pairs in the order of the dictionary; result is the mapping built so far,
\* as the list of its (key, state) pairs.
RECURSIVE activate_loop(_, _, _, _, _, _, _)
activate_loop(page, bonuses, i, captcha, result, l, a) ==
    IF i > Len(bonuses) THEN On(OutA(result, "", l, a), page)
    ELSE IF bonuses[i].k \notin VALID_BONUS_KEYS THEN On(OutA(<<>>, "ValueError", l, a), page)
    ELSE Only({
        IF t.exc # "" THEN On(OutA(<<>>, t.exc, l \o t.log, a \o t.acts), t.page)
        ELSE activate_loop(t.page, bonuses, i + 1, captcha,
                           Append(result, [k |-> bonuses[i].k, v |-> t.ret]),
                           l \o t.log, a \o t.acts)
        : t \in {turn(page, bonuses[i].k, bonuses[i].v, captcha,
                      \A j \in 1..Len(result) : IsActive(result[j].v))}})

\* activate_bonuses that tries every bonus, whatever became of the earlier ones
RECURSIVE activate_loop_tries_all(_, _, _, _, _, _, _)
activate_loop_tries_all(page, bonuses, i, captcha, result, l, a) ==
    IF i > Len(bonuses) THEN On(OutA(result, "", l, a), page)
    ELSE IF bonuses[i].k \notin VALID_BONUS_KEYS THEN On(OutA(<<>>, "ValueError", l, a), page)
    ELSE Only({
        IF t.exc # "" THEN On(OutA(<<>>, t.exc, l \o t.log, a \o t.acts), t.page)
        ELSE activate_loop_tries_all(t.page, bonuses, i + 1, captcha,
                                     Append(result, [k |-> bonuses[i].k, v |-> t.ret]),
                                     l \o t.log, a \o t.acts)
        : t \in {turn(page, bonuses[i].k, bonuses[i].v, captcha, TRUE)}})

activate_bonuses_tries_all(page, bonuses, captcha) ==
    activate_loop_tries_all(page, bonuses, 1, captcha, <<>>, <<>>, <<>>)

\* activate_bonuses that leaves the bonuses after the first failure out of
\* its result
RECURSIVE activate_loop_stops(_, _, _, _, _, _, _)
activate_loop_stops(page, bonuses, i, captcha, result, l, a) ==
    IF i > Len(bonuses) \/ \E j \in 1..Len(result) : ~IsActive(result[j].v)
    THEN On(OutA(result, "", l, a), page)
    ELSE IF bonuses[i].k \notin VALID_BONUS_KEYS THEN On(OutA(<<>>, "ValueError", l, a), page)
    ELSE Only({
        IF t.exc # "" THEN On(OutA(<<>>, t.exc, l \o t.log, a \o t.acts), t.page)
        ELSE activate_loop_stops(t.page, bonuses, i + 1, captcha,
                                 Append(result, [k |-> bonuses[i].k, v |-> t.ret]),
                                 l \o t.log, a \o t.acts)
        : t \in {turn(page, bonuses[i].k, bonuses[i].v, captcha, TRUE)}})

activate_bonuses_stops(page, bonuses, captcha) ==
    activate_loop_stops(page, bonuses, 1, captcha, <<>>, <<>>, <<>>)

activate_bonuses(page, bonuses, captcha) ==
    activate_loop(page, bonuses, 1, captcha, <<>>, <<>>, <<>>)

\* the accessors that read one element and return a number
NumAccessors == {"balance_btc", "balance_rp", "balance_lt", "winning_btc", "winning_rp",
                 "winning_lt", "winning_wof", "free_play_cost"}

AccessorEC(name) ==
    IF name = "balance_btc" THEN "presence_of_all_elements_located"
    ELSE "presence_of_element_located"

NumAccessor(name, polls) ==
    CASE name = "balance_btc" -> balance_btc(polls)
      [] name = "balance_rp" -> balance_rp(polls)
      [] name = "balance_lt" -> balance_lt(polls)
      [] name = "winning_btc" -> get_winning(polls, "Decimal")
      [] name = "winning_rp" -> get_winning(polls, "int")
      [] name = "winning_lt" -> get_winning(polls, "int")
      [] name = "winning_wof" -> winning_wof(polls)
      [] OTHER -> free_play_cost(polls)

\* the texts of the cells of a bonus table
CellTexts == {t \in StrsUpTo(1) : TRUE} \cup {<<"1", "0">>, <<"1", "%">>, <<"1", ",">>}

\* the page shows one element with some text, stale or not, or none
OneElem == {<<Elem(t, st)>> : t \in Texts, st \in BOOLEAN} \cup {<<>>}

\* the page shows up to two table cells
Cells == {<<>>} \cup {<<Elem(t, st)>> : t \in CellTexts, st \in BOOLEAN}
            \cup {<<Elem(t, FALSE), Elem(u, st)>> : t \in CellTexts, u \in CellTexts, st \in BOOLEAN}

\* ------------------------------------------------------------- _close_modal

\* _close_modal that clicks the close control whatever the modal shows
close_modal_blind(page, if_success_log_level) ==
    Only({
        IF b.ret = <<>> THEN Out(FALSE, "", b.log)
        ELSE IF b.ret[1].stale THEN Raise("StaleElementReferenceException", b.log)
        ELSE Only({
            OutA(n.ret # <<>>, "", b.log \o n.log, <<Act("click", "close")>>)
            : n \in {get_elements(KwdsOf("not_displayed_of_element", TRUE, 0),
                                  <<not_displayed_of_element(page.after)>>)}})
        : b \in {get_elements(KwdsOf(ONE, TRUE, 30), PollsFor(ONE, page.button))}})

\* _close_modal(locator_value, close_btn_locator_value, if_success_log_level)
\* on a page showing the modal (modal), its close control (button), and the
\* modal as it is after the click while it is waited for to be not displayed
\* (after) and, that wait having timed out, while it is waited for not to be
\* displayed (later)
close_modal(page, if_success_log_level) ==
    Only({
        IF m.ret = <<>> THEN Out(FALSE, "", m.log)
        ELSE Only({
            IF b.ret = <<>> THEN Out(FALSE, "", m.log \o b.log)
            ELSE IF b.ret[1].stale
            THEN Raise("StaleElementReferenceException", m.log \o b.log)
            ELSE Only({
                Only({
                    OutA(n.ret # <<>> \/ d.ret # <<>>, "",
                         m.log \o b.log \o n.log \o (IF n.ret = <<>> THEN d.log ELSE <<>>)
                             \o (IF n.ret # <<>> \/ d.ret # <<>>
                                 THEN <<LogRec(if_success_log_level, "closed.", 1, 1)>> ELSE <<>>),
                         <<Act("click", "close")>>)
                    : d \in {get_elements(KwdsOf("displayed_of_element", FALSE, 30),
                                          <<displayed_of_element(page.later)>>)}})
                : n \in {get_elements(KwdsOf("not_displayed_of_element", TRUE, 0),
                                      <<not_displayed_of_element(page.after)>>)}})
            : b \in {get_elements(KwdsOf(ONE, TRUE, 30), PollsFor(ONE, page.button))}})
        : m \in {get_elements(KwdsOf("displayed_of_element", TRUE, 30),
                              <<displayed_of_element(page.modal)>>)}})

\* ------------------------------------------------------------------ sign_in

\* pyotp.TOTP(totp_secret).now(): the one-time code of the moment, a
\* non-empty string of digits
TOTP_now(totp_secret) == <<"1">>

\* _current_sign_form_id(locator_value): the menu button of the form is
\* clicked when it is found, and the id of the form then displayed is
\* returned, '' when none is
current_sign_form_id(page, locator_value) ==
    OutA(Some(page.form), "",
         IF page.form # "" /\ page.form = locator_value
         THEN <<LogRec(10, "Current sign form id", 0, 0)>> ELSE <<>>,
         IF locator_value # "" /\ page.menu THEN <<Act("click", "login_menu_button")>> ELSE <<>>)

\* one call of _value_input_field(locator_value, value) by sign_in, its
\* actions named after the field
fill(page, locator_value, value) ==
    Only({OutA(o.ret, o.exc, o.log,
               <<Did("_value_input_field", locator_value, value)>>
                   \o [i \in 1..Len(o.acts) |-> Act(o.acts[i].a, locator_value)])
          : o \in {value_input_field(page[locator_value], value, 10)}})

\* the end of a sign_in that failed
failed(l, a) == OutA(Some(FALSE), "", l \o <<LogRec(50, "Sign-in failed.", 1, 1)>>, a)

\* the rest of sign_in once the fields are filled: the button is waited for
\* and clicked, and the logout link tells the outcome
submit(page, password, totp_secret, l, a) ==
    IF ~page.login_button THEN failed(l, a)
    ELSE IF page.logout_link
    THEN OutA(Some(TRUE), "", l \o <<LogRec(20, "Sign-in successful.", 2, 2)>>,
              a \o <<Act("click", "login_button"), Did("store", "password", password),
                     Did("store", "totp_secret", totp_secret)>>)
    ELSE OutA(Some(FALSE), "", l \o <<LogRec(50, "Sign-in failed.", 2, 2)>>,
              a \o <<Act("click", "login_button")>>)

\* sign_in that goes on whatever the password field reads
sign_in_unchecked(page, address, password, totp_secret) ==
    Only({
        IF f.ret # Some("login_form") THEN failed(f.log, f.acts)
        ELSE IF address = <<>>
        THEN failed(f.log \o <<LogRec(40, "Email or BTC address is empty.", 0, 0)>>, f.acts)
        ELSE Only({
            IF a.exc # "" THEN OutA(<<>>, a.exc, f.log \o a.log, f.acts \o a.acts)
            ELSE IF a.ret # Some(address) THEN failed(f.log \o a.log, f.acts \o a.acts)
            ELSE IF password = <<>>
            THEN failed(f.log \o a.log \o <<LogRec(40, "Password is empty.", 0, 0)>>, f.acts \o a.acts)
            ELSE Only({
                IF p.exc # "" THEN OutA(<<>>, p.exc, f.log \o a.log \o p.log, f.acts \o a.acts \o p.acts)
                ELSE IF totp_secret = <<>>
                THEN submit(page, password, totp_secret, f.log \o a.log \o p.log,
                            f.acts \o a.acts \o p.acts)
                ELSE Only({
                    IF t.exc # ""
                    THEN OutA(<<>>, t.exc, f.log \o a.log \o p.log \o t.log,
                              f.acts \o a.acts \o p.acts \o t.acts)
                    ELSE IF t.ret # Some(TOTP_now(totp_secret))
                    THEN failed(f.log \o a.log \o p.log \o t.log, f.acts \o a.acts \o p.acts \o t.acts)
                    ELSE submit(page, password, totp_secret, f.log \o a.log \o p.log \o t.log,
                                f.acts \o a.acts \o p.acts \o t.acts)
                    : t \in {fill(page, "login_form_2fa", TOTP_now(totp_secret))}})
                : p \in {fill(page, "login_form_password", password)}})
            : a \in {fill(page, "login_form_btc_address", address)}})
        : f \in {current_sign_form_id(page, "login_form")}})

\* FreeBitcoinFaucet.sign_in(address, password, totp_secret)
sign_in(page, address, password, totp_secret) ==
    Only({
        IF f.ret # Some("login_form") THEN failed(f.log, f.acts)
        ELSE IF address = <<>>
        THEN failed(f.log \o <<LogRec(40, "Email or BTC address is empty.", 0, 0)>>, f.acts)
        ELSE Only({
            IF a.exc # "" THEN OutA(<<>>, a.exc, f.log \o a.log, f.acts \o a.acts)
            ELSE IF a.ret # Some(address) THEN failed(f.log \o a.log, f.acts \o a.acts)
            ELSE IF password = <<>>
            THEN failed(f.log \o a.log \o <<LogRec(40, "Password is empty.", 0, 0)>>, f.acts \o a.acts)
            ELSE Only({
                IF p.exc # "" THEN OutA(<<>>, p.exc, f.log \o a.log \o p.log, f.acts \o a.acts \o p.acts)
                ELSE IF p.ret # Some(password)
                THEN failed(f.log \o a.log \o p.log, f.acts \o a.acts \o p.acts)
                ELSE IF totp_secret = <<>>
                THEN submit(page, password, totp_secret, f.log \o a.log \o p.log,
                            f.acts \o a.acts \o p.acts)
                ELSE Only({
                    IF t.exc # ""
                    THEN OutA(<<>>, t.exc, f.log \o a.log \o p.log \o t.log,
                              f.acts \o a.acts \o p.acts \o t.acts)
                    ELSE IF t.ret # Some(TOTP_now(totp_secret))
                    THEN failed(f.log \o a.log \o p.log \o t.log, f.acts \o a.acts \o p.acts \o t.acts)
                    ELSE submit(page, password, totp_secret, f.log \o a.log \o p.log \o t.log,
                                f.acts \o a.acts \o p.acts \o t.acts)
                    : t \in {fill(page, "login_form_2fa", TOTP_now(totp_secret))}})
                : p \in {fill(page, "login_form_password", password)}})
            : a \in {fill(page, "login_form_btc_address", address)}})
        : f \in {current_sign_form_id(page, "login_form")}})

\* sign_out that forgets the credentials as soon as the link is clicked
sign_out_forgets(page) ==
    IF ~page.logout_link
    THEN OutA(Some(FALSE), "", <<LogRec(40, "Sign-out failed.", 1, 1)>>, <<>>)
    ELSE OutA(Some(page.login_button), "",
              <<LogRec(IF page.login_button THEN 20 ELSE 40, "Sign-out .", 2, 2)>>,
              <<Act("click", "logout_link"), Did("store", "password", <<>>),
                Did("store", "totp_secret", <<>>)>>)

\* FreeBitcoinFaucet.sign_out(): the logout link is waited for and clicked,
\* and the login button tells the outcome; the credentials are forgotten
\* when it is there
sign_out(page) ==
    IF ~page.logout_link
    THEN OutA(Some(FALSE), "", <<LogRec(40, "Sign-out failed.", 1, 1)>>, <<>>)
    ELSE IF page.login_button
    THEN OutA(Some(TRUE), "", <<LogRec(20, "Sign-out successful.", 2, 2)>>,
              <<Act("click", "logout_link"), Did("store", "password", <<>>),
                Did("store", "totp_secret", <<>>)>>)
    ELSE OutA(Some(FALSE), "", <<LogRec(40, "Sign-out failed.", 2, 2)>>,
              <<Act("click", "logout_link")>>)



\* zip(keys, costs): the pairs up to the end of the shorter list
Zip(keys, costs) ==
    [i \in 1..(IF Len(keys) <= Len(costs) THEN Len(keys) ELSE Len(costs)) |-> <<keys[i], costs[i]>>]

\* dict(pairs): one entry per distinct key, holding the value of the last
\* pair with that key
Dict(pairs) ==
    [k \in {pairs[i][1] : i \in 1..Len(pairs)} |->
        pairs[CHOOSE i \in 1..Len(pairs) :
                  pairs[i][1] = k /\ \A j \in (i + 1)..Len(pairs) : pairs[j][1] # k][2]]

\* _get_bonuses_dict: dict(zip(self._get_bonus_keys(...), self._get_bonus_costs(...)))
get_bonuses_dict(page) ==
    Only({
        IF k.exc # "" THEN k
        ELSE Only({
            IF c.exc # "" THEN Raise(c.exc, k.log \o c.log)
            ELSE Out(Dict(Zip(k.ret, c.ret)), "", k.log \o c.log)
            : c \in {get_bonus_costs(PollsFor("presence_of_all_elements_located", page.costs))}})
        : k \in {get_bonus_keys(PollsFor("presence_of_all_elements_located", page.keys))}})


\* -------------------------------------------------------- load_bonus_table

\* the page tabs the faucet moves between
Tabs == {"free_play_tab", "rewards_tab"}

\* _current_page_tab_id(locator_value): with an id given, the link of that
\* tab is clicked when it is found; the id of the tab then displayed is
\* returned, '' when none is.  page.current is the tab displayed,
\* page.links the tabs whose link is found and page.dead those whose link
\* takes the click without switching.
current_page_tab_id(page, locator_value) ==
    LET found == locator_value # "" /\ locator_value \in page.links
        now   == IF found /\ locator_value \notin page.dead THEN locator_value ELSE page.current
    IN  On(OutA(now, "",
                IF now # "" /\ now = locator_value THEN <<LogRec(10, "Current page tab id", 0, 0)>> ELSE <<>>,
                IF found THEN <<Act("click", locator_value)>> ELSE <<>>),
           [page EXCEPT !.current = now])

\* FreeBitcoinFaucet.load_bonus_table: the value returned with the tab
\* displayed at the end
load_bonus_table(page) ==
    Only({
        Only({
            IF r.ret = "rewards_tab"
            THEN Only({OutA([value |-> TRUE, current |-> b.page.current], "",
                            p.log \o r.log \o b.log, p.acts \o r.acts \o b.acts)
                       : b \in {current_page_tab_id(r.page, p.ret)}})
            ELSE OutA([value |-> FALSE, current |-> r.page.current], "", p.log \o r.log, p.acts \o r.acts)
            : r \in {current_page_tab_id(p.page, "rewards_tab")}})
        : p \in {current_page_tab_id(page, "")}})

\* ------------------------------------------------------------ version_info

\* str.split(c): the fields between the separators c, empty ones included
RECURSIVE SplitOn(_, _)
SplitOn(s, c) ==
    LET seps == {i \in 1..Len(s) : s[i] = c}
    IN  IF seps = {} THEN <<s>>
        ELSE LET n == CHOOSE i \in seps : \A j \in seps : i <= j
             IN  <<SubSeq(s, 1, n - 1)>> \o SplitOn(SubSeq(s, n + 1, Len(s)), c)

\* c.join(fields)
RECURSIVE Join(_, _)
Join(fields, c) ==
    IF fields = <<>> THEN <<>>
    ELSE IF Len(fields) = 1 THEN fields[1]
    ELSE fields[1] \o <<c>> \o Join(Tail(fields), c)

\* str.isdigit() on the characters of Chars
IsDigit(v) == v # <<>> /\ \A i \in 1..Len(v) : v[i] \in Digits

\* len(version_info._fields): major, minor, release, build
VersionFields == 4

\* version_info without the padding of the missing fields
version_info_unpadded(version) ==
    LET fields == SplitOn(version, ".")
        taken  == SubSeq(fields, 1, IF Len(fields) < VersionFields THEN Len(fields) ELSE VersionFields)
    IN  [i \in 1..Len(taken) |-> IF IsDigit(taken[i]) THEN DigitsVal(taken[i]) ELSE 0]

\* BrowserExecFileOrLink.version_info, from the string the property version
\* returns
version_info(version) ==
    LET fields == SplitOn(version, ".")
        taken  == SubSeq(fields, 1, IF Len(fields) < VersionFields THEN Len(fields) ELSE VersionFields)
        ver    == [i \in 1..Len(taken) |-> IF IsDigit(taken[i]) THEN DigitsVal(taken[i]) ELSE 0]
    IN  ver \o [i \in 1..(VersionFields - Len(ver)) |-> 0]


\* ------------------------------------------------------------ driver update

\* ord(c) of the characters of a version string and of a permission string
Ord(c) ==
    CASE c = "." -> 46 [] c = "0" -> 48 [] c = "1" -> 49 [] c = "4" -> 52 [] c = "5" -> 53
      [] c = "6" -> 54 [] c = "7" -> 55 [] c = "9" -> 57 [] OTHER -> 118

\* a < b on str: the first character that differs decides, and a proper
\* prefix is smaller
RECURSIVE py_lt(_, _)
py_lt(a, b) ==
    IF b = <<>> THEN FALSE
    ELSE IF a = <<>> THEN TRUE
    ELSE IF Head(a) # Head(b) THEN Ord(Head(a)) < Ord(Head(b))
    ELSE py_lt(Tail(a), Tail(b))

\* str.lstrip('v.')
RECURSIVE lstrip_v(_)
lstrip_v(s) == IF s # <<>> /\ Head(s) \in {"v", "."} THEN lstrip_v(Tail(s)) ELSE s

\* FirefoxDriverExecFileOrLink.update(url), with DriverExecFileOrLink.update
\* at its head.  page.status is the status of the response for
\* <url>/latest, page.tag the last part of the address it was redirected
\* to, page.version what the property version returns for the installed
\* driver, page.unpacked whether the archive was downloaded and unpacked,
\* and page.perms what perms('755') returns.
update(url, page) ==
    IF url = <<>> THEN Out(FALSE, "", <<LogRec(40, "failed. URL is empty.", 1, 1)>>)
    ELSE IF page.status # 200 THEN Out(FALSE, "", <<LogRec(40, "failed. Response status", 2, 2)>>)
    ELSE LET ver == lstrip_v(page.tag)
         IN  IF ver = page.version \/ py_lt(ver, page.version)
             THEN Out(TRUE, "", <<LogRec(20, "not needed.", 1, 1)>>)
             ELSE IF ~page.unpacked
             THEN OutA(FALSE, "", <<LogRec(40, "failed.", 1, 1)>>, <<Did("download_file", "driver", ver)>>)
             ELSE IF py_lt(page.perms, <<"7", "5", "5">>)
             THEN OutA(FALSE, "", <<LogRec(40, "failed.", 1, 1)>>,
                       <<Did("download_file", "driver", ver), Act("chmod", "driver")>>)
             ELSE OutA(TRUE, "", <<LogRec(20, "successful.", 1, 1)>>,
                       <<Did("download_file", "driver", ver), Act("chmod", "driver")>>)
\* ChromeDriverExecFileOrLink.update(url, browser_version_info), with
\* DriverExecFileOrLink.update at its head.  page.status is the status of
\* the response for <url>/LATEST_RELEASE_<version>, page.latest its text,
\* page.version what the property version returns for the installed driver,
\* page.unpacked whether the archive was downloaded and unpacked,
\* page.license whether the file LICENSE.<name> is in the directory after
\* that, and page.perms what perms('755') returns.  os.remove stands in a
\* try statement whose only clause is finally: what it raises leaves update.
ChromeDriverExecFileOrLink_update(url, page) ==
    IF url = <<>> THEN Out(FALSE, "", <<LogRec(40, "failed. URL is empty.", 1, 1)>>)
    ELSE IF page.status # 200 THEN Out(FALSE, "", <<LogRec(40, "failed. Response status", 2, 2)>>)
    ELSE LET ver == lstrip_v(page.latest)
         IN  IF ver = page.version
             THEN Out(TRUE, "", <<LogRec(20, "not needed.", 1, 1)>>)
             ELSE IF ~page.unpacked
             THEN OutA(FALSE, "", <<LogRec(40, "failed.", 1, 1)>>, <<Did("download_file", "driver", ver)>>)
             ELSE IF ~page.license
             THEN OutA(<<>>, "FileNotFoundError", <<>>, <<Did("download_file", "driver", ver)>>)
             ELSE IF py_lt(page.perms, <<"7", "5", "5">>)
             THEN OutA(FALSE, "", <<LogRec(40, "failed.", 1, 1)>>,
                       <<Did("download_file", "driver", ver), Act("remove", "LICENSE"),
                         Act("chmod", "driver")>>)
             ELSE OutA(TRUE, "", <<LogRec(20, "successful.", 1, 1)>>,
                       <<Did("download_file", "driver", ver), Act("remove", "LICENSE"),
                         Act("chmod", "driver")>>)



\* ------------------------------------------------------------ download_file

\* download_file that does not compare the size of the file written
download_file_unchecked(url, page) ==
    IF url = <<>> THEN Out(<<>>, "", <<LogRec(40, "failed. URL is empty.", 1, 1)>>)
    ELSE IF page.status # 200 THEN Out(<<>>, "", <<LogRec(40, "failed. Response status", 3, 3)>>)
    ELSE IF page.declared = None THEN Raise("TypeError", <<>>)
    ELSE LET written == <<Did("write", "target", page.written)>>
         IN  IF ~page.isfile
             THEN OutA(<<>>, "", <<LogRec(40, "not found or is not a file.", 3, 3)>>, written)
             ELSE OutA(url, "", <<LogRec(20, "successful.", 2, 2)>>, written)

\* download_file(url): page.status is the status of the response,
\* page.declared its content-length header, page.written the size of the
\* file once the body has been copied, page.isfile whether the target is a
\* file then, and page.removable whether os.remove succeeds.  The path
\* returned is named after the url.
download_file(url, page) ==
    IF url = <<>> THEN Out(<<>>, "", <<LogRec(40, "failed. URL is empty.", 1, 1)>>)
    ELSE IF page.status # 200 THEN Out(<<>>, "", <<LogRec(40, "failed. Response status", 3, 3)>>)
    ELSE IF page.declared = None THEN Raise("TypeError", <<>>)
    ELSE LET written == <<Did("write", "target", page.written)>>
         IN  IF ~page.isfile
             THEN OutA(<<>>, "", <<LogRec(40, "not found or is not a file.", 3, 3)>>, written)
             ELSE IF page.written # page.declared[1]
             THEN OutA(<<>>, "",
                       <<LogRec(40, "is not the correct size.", 3, 3)>>
                           \o (IF page.removable THEN <<>>
                               ELSE <<LogRec(30, "Removing the corrupted file failed.", 1, 1)>>),
                       written \o <<Did("os.remove", "target", page.removable)>>)
             ELSE OutA(url, "", <<LogRec(20, "successful.", 2, 2)>>, written)

\* ------------------------------------------------------------ play_free_play

\* something done in a run of scenario, with the value it carried
Ev(a, val) == [a |-> a, on |-> "scenario", val |-> val]

\* The browsing context the driver is left in by the calls a: the frame
\* after a switch to it, the default content after a switch back, and as it
\* was (the default content) when there was neither.
RECURSIVE Context(_, _)
Context(a, was) ==
    IF a = <<>> THEN was
    ELSE Context(Tail(a), CASE Head(a).a = "switch_to.frame" -> "frame"
                            [] Head(a).a = "switch_to.default_content" -> "default"
                            [] OTHER -> was)

\* is_ready_free_play_with_captcha that switches back only after the click
is_ready_free_play_with_captcha_stays(page, log_level) ==
    Only({
        IF f.ret = <<>> THEN Out(FALSE, "", f.log)
        ELSE Only({
            IF c.ret = <<>> THEN OutA(FALSE, "", f.log \o c.log, <<Act("switch_to.frame", "iframe")>>)
            ELSE IF c.ret[1].stale
            THEN OutA(<<>>, "StaleElementReferenceException", f.log \o c.log,
                      <<Act("switch_to.frame", "iframe")>>)
            ELSE Only({
                OutA(v.ret # <<>>, "", f.log \o c.log \o v.log,
                     <<Act("switch_to.frame", "iframe"), Act("click", "checkbox"),
                       Act("switch_to.default_content", "")>>)
                : v \in {get_elements(KwdsOf("value_to_be_equal_to_attribute_value_of_element", TRUE, log_level),
                                      page.checked)}})
            : c \in {get_elements(KwdsOf(ONE, TRUE, log_level), PollsFor(ONE, page.checkbox))}})
        : f \in {get_elements(KwdsOf("frame_to_be_available_and_switch_to_it", TRUE, log_level),
                              page.frame)}})

\* FreeBitcoinFaucet.is_ready_free_play_with_captcha(log_level): the wait
\* for the captcha frame switches to it when it succeeds; the checkbox is
\* then looked for inside the frame, clicked and waited for to be checked,
\* and the driver is switched back to the default content
is_ready_free_play_with_captcha(page, log_level) ==
    Only({
        IF f.ret = <<>> THEN Out(FALSE, "", f.log)
        ELSE Only({
            IF c.ret = <<>>
            THEN OutA(FALSE, "", f.log \o c.log,
                      <<Act("switch_to.frame", "iframe"), Act("switch_to.default_content", "")>>)
            ELSE IF c.ret[1].stale
            THEN OutA(<<>>, "StaleElementReferenceException", f.log \o c.log,
                      <<Act("switch_to.frame", "iframe")>>)
            ELSE Only({
                OutA(v.ret # <<>>, "", f.log \o c.log \o v.log,
                     <<Act("switch_to.frame", "iframe"), Act("click", "checkbox"),
                       Act("switch_to.default_content", "")>>)
                : v \in {get_elements(KwdsOf("value_to_be_equal_to_attribute_value_of_element", TRUE, log_level),
                                      page.checked)}})
            : c \in {get_elements(KwdsOf(ONE, TRUE, log_level), PollsFor(ONE, page.checkbox))}})
        : f \in {get_elements(KwdsOf("frame_to_be_available_and_switch_to_it", TRUE, log_level),
                              page.frame)}})

\* play_free_play that does not compare the cost with the balance
play_free_play_unpaid(check_for_captcha, page) ==
    IF check_for_captcha /\ ~page.with_captcha /\ ~page.without_captcha THEN [ret |-> FALSE, acts |-> <<>>]
    ELSE IF ~page.ready THEN [ret |-> FALSE, acts |-> <<>>]
    ELSE [ret |-> page.result, acts |-> <<Ev("play click", None)>>]

\* FreeBitcoinFaucet.play_free_play: the value returned and the clicks made
\* on the play button
play_free_play(check_for_captcha, page) ==
    IF check_for_captcha /\ ~page.with_captcha /\ page.cost > page.balance_rp
    THEN [ret |-> FALSE, acts |-> <<>>]
    ELSE IF check_for_captcha /\ ~page.with_captcha /\ ~page.without_captcha THEN [ret |-> FALSE, acts |-> <<>>]
    ELSE IF ~page.ready THEN [ret |-> FALSE, acts |-> <<>>]
    ELSE [ret |-> page.result, acts |-> <<Ev("play click", None)>>]

\* ------------------------------------------------------ free_play_countdown

\* free_play_countdown without the handler of IndexError
free_play_countdown_uncaught(section, parts) ==
    LET s == get_elements(Kwds(TRUE, ONE, <<"id", "time_remaining">>, <<>>, <<>>, 40), section)
    IN  IF s.ret = <<>> THEN Out(0, "", s.log)
        ELSE LET p == get_elements(Kwds(TRUE, ALL, <<"css selector", "span.countdown_amount">>, <<>>, <<>>, 10), parts)
             IN  IF p.ret = <<>> THEN Out(0, "", s.log \o p.log)
                 ELSE LET l == NumList(p.ret, "strip")
                      IN  IF l.exc = "StaleElementReferenceException"
                          THEN Out(0, "", s.log \o p.log \o l.log
                                   \o <<LogRec(40, "Reference to the countdown timer section element was lost", 0, 0)>>)
                          ELSE IF l.exc # "" THEN Raise(l.exc, s.log \o p.log \o l.log)
                          ELSE IF Len(l.ret) < 2 THEN Raise("IndexError", s.log \o p.log \o l.log)
                          ELSE Out(l.ret[1] * 60 + l.ret[2], "", s.log \o p.log \o l.log)

\* the property free_play_countdown: section are the polls of the wait for
\* the timer section, parts those of the wait for its parts
free_play_countdown(section, parts) ==
    LET s == get_elements(Kwds(TRUE, ONE, <<"id", "time_remaining">>, <<>>, <<>>, 40), section)
    IN  IF s.ret = <<>> THEN Out(0, "", s.log)
        ELSE LET p == get_elements(Kwds(TRUE, ALL, <<"css selector", "span.countdown_amount">>, <<>>, <<>>, 10), parts)
             IN  IF p.ret = <<>> THEN Out(0, "", s.log \o p.log)
                 ELSE LET l == NumList(p.ret, "strip")
                      IN  IF l.exc = "StaleElementReferenceException"
                          THEN Out(0, "", s.log \o p.log \o l.log
                                   \o <<LogRec(40, "Reference to the countdown timer section element was lost", 0, 0)>>)
                          ELSE IF l.exc # "" THEN Raise(l.exc, s.log \o p.log \o l.log)
                          ELSE IF Len(l.ret) < 2
                               THEN Out(0, "", s.log \o p.log \o l.log
                                        \o <<LogRec(40, "Countdown timer has less than two sections.", 0, 0)>>)
                               ELSE Out(l.ret[1] * 60 + l.ret[2], "", s.log \o p.log \o l.log)

\* ------------------------------------------------------------- the machine

Init ==
    /\ op = "new"
    /\ args = <<>>
    /\ env = <<>>
    /\ ret = <<>>
    /\ exc = ""
    /\ log = <<>>
    /\ acts = <<>>

\* one call of a method on the freshly made object, recorded
Record(name, a, e, out) ==
    /\ op = "new"
    /\ op' = name
    /\ args' = a
    /\ env' = e
    /\ \E o \in {out} :
        /\ ret' = o.ret
        /\ exc' = o.exc
        /\ log' = o.log
        /\ acts' = o.acts

CallStr2num ==
    /\ op = "new"
    /\ \E string \in StrsUpTo(MaxStrLen), obj \in NumTypes :
        Record("str2num", [string |-> string, obj |-> obj], <<>>, str2num(string, obj))

CallGetElements ==
    /\ op = "new"
    /\ \E ec \in ECs, wait_until \in BOOLEAN, log_level \in VALID_LOG_LEVELS :
        \E polls \in PollSeqs(ec) :
            LET kwds == KwdsOf(ec, wait_until, log_level)
            IN  Record("_get_elements", kwds, polls, get_elements(kwds, polls))

\* is_available: title_contains_lower with a value and no locator
is_available(polls) ==
    LET out == get_elements(Kwds(TRUE, "title_contains_lower", <<>>, <<>>, StrSelf, 40), polls)
    IN  Out(out.ret # <<>>, out.exc, out.log)

CallIsAvailable ==
    /\ op = "new"
    /\ \E polls \in PollSeqs("title_contains_lower") :
        Record("is_available", <<>>, polls, is_available(polls))

CallNumAccessor ==
    /\ op = "new"
    /\ \E name \in NumAccessors, els \in OneElem :
        Record(name, <<>>, els, NumAccessor(name, PollsFor(AccessorEC(name), els)))

CallUserId ==
    /\ op = "new"
    /\ \E els \in OneElem :
        Record("user_id", <<>>, els, user_id(PollsFor("presence_of_element_located", els)))

CallGetBonusKeys ==
    /\ op = "new"
    /\ \E els \in Cells :
        Record("_get_bonus_keys", <<>>, els,
               get_bonus_keys(PollsFor("presence_of_all_elements_located", els)))

CallGetBonusCosts ==
    /\ op = "new"
    /\ \E els \in Cells :
        Record("_get_bonus_costs", <<>>, els,
               get_bonus_costs(PollsFor("presence_of_all_elements_located", els)))

\* the class attribute of the element holding the state of a checkbox
ClassAttrs == {<<"checkbox">>, <<"checkbox", "checked">>}

\* the values of an input field
FieldTexts == {<<>>, <<"x">>, <<"1">>}

\* the log levels the faucet passes for a success message
SuccessLevels == {10, 20}

CallStateCheckbox ==
    /\ op = "new"
    /\ \E value \in {None, Some(TRUE), Some(FALSE)}, lvl \in SuccessLevels :
        \E span \in {<<>>} \cup {<<Elem(c, st)>> : c \in ClassAttrs, st \in BOOLEAN},
           input \in {<<>>, <<Elem(<<>>, FALSE)>>, <<Elem(<<>>, TRUE)>>},
           after \in {Elem(c, st) : c \in ClassAttrs, st \in BOOLEAN} :
            LET page == [span |-> span, input |-> input, after |-> after]
            IN  Record("_state_checkbox", [value |-> value, if_success_log_level |-> lvl], page,
                       state_checkbox(page, value, lvl))

CallValueInputField ==
    /\ op = "new"
    /\ \E value \in FieldTexts, lvl \in SuccessLevels :
        \E field \in {<<>>} \cup {<<Elem(t, st)>> : t \in FieldTexts, st \in BOOLEAN},
           after \in {Elem(t, st) : t \in FieldTexts, st \in BOOLEAN} :
            LET page == [field |-> field, after |-> after]
            IN  Record("_value_input_field", [value |-> value, if_success_log_level |-> lvl], page,
                       value_input_field(page, value, lvl))

\* texts of the rewards tab
T1 == <<"1", "%">>

T10 == <<"1", "0">>

T11 == <<"1", "1">>

Cell(text) == Elem(text, FALSE)

KeyColumns == {<<>>, <<Cell(T1), Cell(T10)>>, <<Cell(<<>>), Cell(T10)>>,
               <<Elem(T1, TRUE), Cell(T10)>>}

CostColumns == {<<Cell(<<"1">>), Cell(T10)>>, <<Cell(<<"1">>)>>, <<Cell(<<" ">>), Cell(T10)>>}

ButtonColumns == {<<Cell(<<>>), Cell(<<>>)>>, <<Cell(<<>>)>>}

ActiveElems == {<<>>, <<Cell(T1)>>, <<Cell(T10)>>, <<Cell(<<"x">>)>>, <<Cell(<<>>)>>,
                <<Elem(T1, TRUE)>>}

AfterElems == {<<>>, <<Cell(T10)>>, <<Cell(<<>>)>>}

PointElems == {<<>>, <<Cell(<<"1">>)>>, <<Cell(T11)>>}

\* the keys the settings can ask for: 11 is not in any table shown
AskedKeys == {0, 1, 10, 11}

CallActiveBonus ==
    /\ op = "new"
    /\ \E k \in VALID_BONUS_KEYS, value \in AskedKeys, captcha \in BOOLEAN :
        \E keys \in KeyColumns, costs \in CostColumns, buttons \in ButtonColumns,
           active \in ActiveElems, after \in AfterElems, rp \in PointElems :
            LET page == [keys |-> keys, costs |-> costs, buttons |-> buttons,
                         active |-> [c \in VALID_BONUS_KEYS |-> active],
                         after |-> [c \in VALID_BONUS_KEYS |-> after],
                         rp |-> rp, fpc |-> <<Cell(<<"1">>)>>]
            IN  Record("_active_bonus",
                       [k |-> k, value |-> value, check_for_captcha |-> captcha,
                        if_success_log_level |-> 20],
                       page, active_bonus(page, k, value, captcha, 20))

\* the mappings handed to activate_bonuses, as lists of (key, value) pairs
\* with distinct keys
BonusKeys == VALID_BONUS_KEYS \cup {"xyz"}

\* the keys settings.BONUSES asks for: none (0), the keys 1 and 10 of the
\* table, and 11, which no table holds
BonusValues == {0, 1, 10, 11}

BonusMaps ==
    {b \in SeqsUpTo([k : BonusKeys, v : BonusValues], MaxBonuses) :
        \A i, j \in 1..Len(b) : i # j => b[i].k # b[j].k}

KeyText(v) == IF v = 1 THEN T1 ELSE T10

CallActivateBonuses ==
    /\ op = "new"
    /\ \E bonuses \in BonusMaps, captcha \in BOOLEAN, honours \in BOOLEAN :
        \E active \in [VALID_BONUS_KEYS -> {<<>>, <<Cell(T10)>>, <<Cell(<<"x">>)>>}],
           rp \in PointElems \ {<<>>} :
            LET asked(c) == {i \in 1..Len(bonuses) : bonuses[i].k = c}
                page == [keys |-> <<Cell(T1), Cell(T10)>>,
                         costs |-> <<Cell(<<"1">>), Cell(T10)>>,
                         buttons |-> <<Cell(<<>>), Cell(<<>>)>>,
                         active |-> active,
                         after |-> [c \in VALID_BONUS_KEYS |->
                                       IF honours /\ asked(c) # {}
                                       THEN <<Cell(KeyText(bonuses[CHOOSE i \in asked(c) : TRUE].v))>>
                                       ELSE active[c]],
                         rp |-> rp, fpc |-> <<Cell(<<"1">>)>>]
            IN  /\ \A c \in VALID_BONUS_KEYS : asked(c) = {} => active[c] = <<>>
                /\ Record("activate_bonuses", [bonuses |-> bonuses, check_for_captcha |-> captcha],
                          page, activate_bonuses(page, bonuses, captcha))

\* the texts between the dots of a version string
FieldTextsOfVersion == {<<>>, <<"1">>, <<"1", "0">>, <<"0", "1">>, <<"x">>, <<"1", "x">>}

\* The strings the property version returns: what the executable printed
\* with leading 'v' and '.' stripped, so no string begins with a dot; the
\* empty string when the executable printed nothing.
VersionLists ==
    {f \in UNION {[1..n -> FieldTextsOfVersion] : n \in 1..MaxFields} : f[1] = <<>> => Len(f) = 1}

CallVersionInfo ==
    /\ op = "new"
    /\ \E fields \in VersionLists :
        Record("version_info", [version |-> Join(fields, ".")], fields,
               Out(version_info(Join(fields, ".")), "", <<>>))

\* the parts a countdown timer can show: numbers, a text that is no number,
\* and a part whose reference is lost before it is read
PartElems == {Elem(<<"1">>, FALSE), Elem(<<" ", "1", "0">>, FALSE), Elem(<<"x">>, FALSE), Elem(<<"1">>, TRUE)}

TimerParts == UNION {[1..n -> PartElems] : n \in 0..MaxParts}

\* env.section: the polls of the wait for the timer section; env.parts: the
\* parts the section holds; env.lost: the section is replaced before its
\* parts are looked up
CallFreePlayCountdown ==
    /\ op = "new"
    /\ \E section \in PollSeqs(ONE), parts \in TimerParts, lost \in BOOLEAN :
        Record("free_play_countdown", <<>>, [section |-> section, parts |-> parts, lost |-> lost],
               free_play_countdown(section,
                                   IF lost THEN <<Poll("StaleElementReferenceException", <<>>)>>
                                   ELSE PollsFor(ALL, parts)))


\* What an input field of the login form can be for a value to write: not
\* there, holding the value already, empty and taking the value, empty and
\* reading back something else, and gone stale once typed into.
FieldPages(value) ==
    {[field |-> <<>>, after |-> Elem(value, FALSE)],
     [field |-> <<Elem(value, FALSE)>>, after |-> Elem(value, FALSE)],
     [field |-> <<Elem(<<>>, FALSE)>>, after |-> Elem(value, FALSE)],
     [field |-> <<Elem(<<>>, FALSE)>>, after |-> Elem(<<"x">>, FALSE)],
     [field |-> <<Elem(<<>>, FALSE)>>, after |-> Elem(value, TRUE)]}

\* addresses, passwords and secrets: none or one
Credentials(c) == {<<>>, <<c>>}

CallSignIn ==
    /\ op = "new"
    /\ \E address \in Credentials("a"), password \in Credentials("p"), totp_secret \in Credentials("s") :
        \E menu \in BOOLEAN, form \in {"login_form", "signup_form", ""},
           fa \in FieldPages(address), fp \in FieldPages(password),
           ft \in FieldPages(TOTP_now(totp_secret)),
           login_button \in BOOLEAN, logout_link \in BOOLEAN :
            LET page == [menu |-> menu, form |-> form, login_form_btc_address |-> fa,
                         login_form_password |-> fp, login_form_2fa |-> ft,
                         login_button |-> login_button, logout_link |-> logout_link]
            IN  Record("sign_in",
                       [address |-> address, password |-> password, totp_secret |-> totp_secret],
                       page, sign_in(page, address, password, totp_secret))

\* a column of a bonus table: up to MaxBonuses cells reading 1% or 10, the
\* reference to a cell stale or not
TableColumns == UNION {[1..n -> {Cell(T1), Cell(T10), Elem(T1, TRUE)}] : n \in 0..MaxBonuses}

CallGetBonusesDict ==
    /\ op = "new"
    /\ \E keys \in TableColumns, costs \in TableColumns :
        LET page == [keys |-> keys, costs |-> costs]
        IN  Record("_get_bonuses_dict", <<>>, page, get_bonuses_dict(page))

CallLoadBonusTable ==
    /\ op = "new"
    /\ \E current \in Tabs \cup {""}, links \in SUBSET Tabs :
        \E dead \in SUBSET links :
            LET page == [current |-> current, links |-> links, dead |-> dead]
            IN  Record("load_bonus_table", <<>>, page, load_bonus_table(page))

\* The versions of a driver: two numbers of one or two digits, as
\* geckodriver prints them and as its releases are tagged.
DriverVersions ==
    {Join(f, ".") : f \in [1..2 -> {<<"0">>, <<"1">>, <<"9">>, <<"1", "0">>}]}

CallUpdate ==
    /\ op = "new"
    /\ \E url \in {<<>>, <<"u">>}, status \in {200, 404}, latest \in DriverVersions,
          version \in DriverVersions \cup {<<>>}, unpacked \in BOOLEAN,
          perms \in {<<"6", "4", "4">>, <<"7", "5", "5">>} :
        LET page == [status |-> status, tag |-> <<"v">> \o latest, version |-> version,
                     unpacked |-> unpacked, perms |-> perms]
        IN  Record("update", [url |-> url], page, update(url, page))

CallDownloadFile ==
    /\ op = "new"
    /\ \E url \in {<<>>, <<"u">>}, status \in {200, 404},
          declared \in {None} \cup {Some(n) : n \in 0..MaxSize}, written \in 0..MaxSize,
          isfile \in BOOLEAN, removable \in BOOLEAN :
        LET page == [status |-> status, declared |-> declared, written |-> written,
                     isfile |-> isfile, removable |-> removable]
        IN  Record("download_file", [url |-> url], page, download_file(url, page))

\* what play_free_play is called on: the cost and the balance up to
\* MaxPoints reward points
CallPlayFreePlay ==
    /\ op = "new"
    /\ \E check_for_captcha \in BOOLEAN, with_captcha \in BOOLEAN, cost \in 0..MaxPoints,
          balance \in 0..MaxPoints, without_captcha \in BOOLEAN, ready \in BOOLEAN,
          result \in BOOLEAN :
        LET page == [with_captcha |-> with_captcha, cost |-> cost, balance_rp |-> balance,
                     without_captcha |-> without_captcha, ready |-> ready, result |-> result]
        IN  \E played \in {play_free_play(check_for_captcha, page)} :
                Record("play_free_play", [check_for_captcha |-> check_for_captcha], page,
                       OutA(played.ret, "", <<>>, played.acts))

\* the two conditions of ec.py evaluated on one element at one instant
CallDisplayedOfElement ==
    /\ op = "new"
    /\ \E node \in Nodes :
        Record("displayed_of_element", <<>>, node,
               Out([displayed_of_element |-> Truthy(displayed_of_element(node)),
                    not_displayed_of_element |-> Truthy(not_displayed_of_element(node))], "", <<>>))

\* the close control of a modal: not there, there, or gone stale once found
CloseButtons == {<<>>, <<AnElem>>, <<Elem(<<>>, TRUE)>>}

CallCloseModal ==
    /\ op = "new"
    /\ \E modal \in Nodes, button \in CloseButtons, after \in Nodes, later \in Nodes,
          if_success_log_level \in {10, 20} :
        LET page == [modal |-> modal, button |-> button, after |-> after, later |-> later]
        IN  Record("_close_modal", [if_success_log_level |-> if_success_log_level], page,
                   close_modal(page, if_success_log_level))

\* the captcha frame and the state of its checkbox as the waits evaluate
\* them, and the checkbox: not there, there, or gone stale once found
CallIsReadyFreePlayWithCaptcha ==
    /\ op = "new"
    /\ \E frame \in PollSeqs("frame_to_be_available_and_switch_to_it"), checkbox \in CloseButtons,
          checked \in PollSeqs("value_to_be_equal_to_attribute_value_of_element"),
          log_level \in {10, 30} :
        LET page == [frame |-> frame, checkbox |-> checkbox, checked |-> checked]
        IN  Record("is_ready_free_play_with_captcha", [log_level |-> log_level], page,
                   is_ready_free_play_with_captcha(page, log_level))

CallChromeUpdate ==
    /\ op = "new"
    /\ \E url \in {<<>>, <<"u">>}, status \in {200, 404}, latest \in DriverVersions,
          version \in DriverVersions \cup {<<>>}, unpacked \in BOOLEAN, license \in BOOLEAN,
          perms \in {<<"6", "4", "4">>, <<"7", "5", "5">>} :
        LET page == [status |-> status, latest |-> latest, version |-> version,
                     unpacked |-> unpacked, license |-> license, perms |-> perms]
        IN  Record("ChromeDriverExecFileOrLink.update", [url |-> url], page,
                   ChromeDriverExecFileOrLink_update(url, page))

Next ==
    \/ CallStr2num
    \/ CallGetElements
    \/ CallIsAvailable
    \/ CallNumAccessor
    \/ CallUserId
    \/ CallGetBonusKeys
    \/ CallGetBonusCosts
    \/ CallStateCheckbox
    \/ CallValueInputField
    \/ CallActiveBonus
    \/ CallVersionInfo
    \/ CallGetBonusesDict
    \/ CallLoadBonusTable
    \/ CallUpdate
    \/ CallDownloadFile
    \/ CallPlayFreePlay
    \/ CallDisplayedOfElement
    \/ CallCloseModal
    \/ CallIsReadyFreePlayWithCaptcha
    \/ CallChromeUpdate

Spec == Init /\ [][Next]_vars

\* the calls of activate_bonuses, which run _active_bonus twice for every
\* bonus of the mapping, are checked on their own
NextActivate ==
    \/ CallActivateBonuses

SpecActivate == Init /\ [][NextActivate]_vars

\* the reads of the countdown timer, which wait twice, are checked on their
\* own as well
NextCountdown ==
    \/ CallFreePlayCountdown

SpecCountdown == Init /\ [][NextCountdown]_vars

\* the calls of sign_in, which fills up to three fields
NextSignIn ==
    \/ CallSignIn

SpecSignIn == Init /\ [][NextSignIn]_vars

\* The faucet object over the calls of sign_in and sign_out made on it: op
\* is "faucet", env holds its fields __password and __totp_secret, their
\* values before the latest call (was) and whether the latest sign_in or
\* sign_out that succeeded was a sign_in (signed); args names the latest call
\* and what it was called with, ret, exc, log and acts are its outcome.
InitFaucet ==
    /\ op = "faucet"
    /\ args = [call |-> "__init__", with |-> <<>>]
    /\ env = [password |-> <<>>, totp_secret |-> <<>>,
              was |-> [password |-> <<>>, totp_secret |-> <<>>], signed |-> FALSE]
    /\ ret = <<>>
    /\ exc = ""
    /\ log = <<>>
    /\ acts = <<>>

\* the value the call stored in the field name, or else old
Stored(a, name, old) ==
    IF \E i \in 1..Len(a) : a[i].a = "store" /\ a[i].on = name
    THEN a[CHOOSE i \in 1..Len(a) : a[i].a = "store" /\ a[i].on = name].val
    ELSE old

\* one call made on the faucet object
Call(name, with, out) ==
    /\ args' = [call |-> name, with |-> with]
    /\ env' = [password |-> Stored(out.acts, "password", env.password),
               totp_secret |-> Stored(out.acts, "totp_secret", env.totp_secret),
               was |-> [password |-> env.password, totp_secret |-> env.totp_secret],
               signed |-> IF out.exc = "" /\ out.ret = Some(TRUE) THEN name = "sign_in" ELSE env.signed]
    /\ ret' = out.ret
    /\ exc' = out.exc
    /\ log' = out.log
    /\ acts' = out.acts
    /\ UNCHANGED op

\* an empty input field of the login form, which takes the value typed or
\* reads back something else
EmptyFields(value) == {f \in FieldPages(value) : f.field = <<Elem(<<>>, FALSE)>> /\ ~f.after.stale}

FaucetSignIn ==
    /\ op = "faucet"
    /\ \E address \in Credentials("a"), password \in Credentials("p"), totp_secret \in Credentials("s") :
        \E menu \in BOOLEAN, form \in {"login_form", ""},
           fa \in FieldPages(address), fp \in EmptyFields(password),
           ft \in EmptyFields(TOTP_now(totp_secret)),
           login_button \in BOOLEAN, logout_link \in BOOLEAN :
            LET page == [menu |-> menu, form |-> form, login_form_btc_address |-> fa,
                         login_form_password |-> fp, login_form_2fa |-> ft,
                         login_button |-> login_button, logout_link |-> logout_link]
            IN  \E out \in {sign_in(page, address, password, totp_secret)} :
                    Call("sign_in", [address |-> address, password |-> password,
                                     totp_secret |-> totp_secret], out)

FaucetSignOut ==
    /\ op = "faucet"
    /\ \E logout_link \in BOOLEAN, login_button \in BOOLEAN :
        \E out \in {sign_out([logout_link |-> logout_link, login_button |-> login_button])} :
            Call("sign_out", <<>>, out)

NextFaucet ==
    \/ FaucetSignIn
    \/ FaucetSignOut

SpecFaucet == InitFaucet /\ [][NextFaucet]_vars

\* ------------------------------------------------------------- the scenario

\* The run of main.scenario, one step for each of its stages.  op is
\* "scenario" throughout, args holds the settings module, env the local
\* variables of scenario() with its position pc, and the state of the browser
\* session and of the user on the site; acts lists what the run has done
\* in its latest stage; ret is the exit status once scenario() has returned, and exc the
\* exception that left it.

\* the settings the run depends on
Settings ==
    [QUICK_START : BOOLEAN,
     ON_UNAVAILABLE_ATTEMPTS : 0..MaxAttempts,
     ON_UNAVAILABLE_ATTEMPTS_TIMEOUT : {3},
     ON_UNAVAILABLE_ATTEMPTS_TIMEOUT_INCREASE : {1, 2},
     FREE_PLAY_NUM : {0, 1, 2},
     FREE_PLAY_ATTEMPTS : {0, 1, 2},
     FREE_PLAY_AFTER_COUNTDOWN_DELAY : {5},
     FREE_PLAY_AFTER_COUNTDOWN_REFRESH : BOOLEAN,
     CHECK_FOR_CAPTCHA : BOOLEAN,
     BONUSES : BOOLEAN]

\* the exceptions a page accessor lets through: none, a reference gone stale
\* between the wait and the read, or a blank text under split()[0]
Faults == {"", "StaleElementReferenceException", "IndexError"}

InitScenario ==
    /\ op = "scenario"
    /\ args \in Settings
    /\ env = [pc |-> "files", driver |-> "none", auth |-> FALSE, signed |-> "",
              attempt |-> 0, timeout |-> 0, att |-> 0, rtimeout |-> 0, back |-> "",
              num |-> 0, fattempt |-> 0, is_played |-> FALSE,
              toggled |-> FALSE, countdown |-> None, ready |-> None, refreshed |-> FALSE, slept |-> FALSE,
              clicks |-> 0, winnings |-> 0, balances |-> 0, plays |-> 0, rclicks |-> 0,
              aslept |-> FALSE, arefreshed |-> FALSE]
    /\ ret = <<>>
    /\ exc = ""
    /\ log = <<>>
    /\ acts = <<>>

Has(a, name) == \E i \in 1..Len(a) : a[i].a = name

\* the value of the latest event name of a, or else old
Latest(a, name, old) ==
    IF Has(a, name) THEN Some(a[CHOOSE i \in 1..Len(a) : a[i].a = name].val) ELSE old

\* the locals e with the account of what the run has done brought up to date
\* by the events a: whether the toggles were applied, the countdown and the
\* readiness read last, whether a refresh was made and a countdown slept
\* through, and how many play clicks, reads of the winnings and reads of the
\* balance after a play there were, how many plays succeeded and how many
\* play clicks the free play under way has seen, and whether the attempt
\* under way has slept for the countdown and has been refreshed at its start
Seen(e, a) ==
    [e EXCEPT !.toggled = @ \/ Has(a, "toggles"),
              !.countdown = Latest(a, "countdown", @),
              !.ready = Latest(a, "ready", @),
              !.refreshed = @ \/ Has(a, "refresh"),
              !.slept = @ \/ Has(a, "countdown sleep"),
              !.clicks = @ + (IF Has(a, "play click") THEN 1 ELSE 0),
              !.winnings = @ + (IF Has(a, "winnings") THEN 1 ELSE 0),
              !.balances = @ + (IF Has(a, "balances") THEN 1 ELSE 0),
              !.plays = @ + (IF Has(a, "played") THEN 1 ELSE 0),
              !.rclicks = IF Has(a, "round") THEN 0 ELSE @ + (IF Has(a, "play click") THEN 1 ELSE 0),
              !.aslept = IF Has(a, "attempt") THEN FALSE ELSE @ \/ Has(a, "countdown sleep"),
              !.arefreshed = IF Has(a, "attempt") THEN FALSE
                             ELSE @ \/ \E i \in 1..Len(a) : a[i].a = "refreshed" /\ a[i].val = "countdown"]

\* one stage of the run: the locals it leaves and what it did
Stage(e, a) ==
    /\ env' = Seen(e, a)
    /\ acts' = a
    /\ UNCHANGED <<op, args, ret, exc, log>>

\* return status
Return(status, e, a) ==
    /\ env' = Seen([e EXCEPT !.pc = "returned"], a)
    /\ acts' = a
    /\ ret' = Some(status)
    /\ UNCHANGED <<op, args, exc, log>>

\* an exception leaves scenario(): nothing in it catches any
Abort(e, a) ==
    /\ env' = Seen([env EXCEPT !.pc = "raised"], a)
    /\ acts' = a
    /\ exc' = e
    /\ UNCHANGED <<op, args, ret, log>>

At(pc) == op = "scenario" /\ env.pc = pc

\* faucet.quit()
Quit(e) == [e EXCEPT !.driver = "quit"]

\* the browser and driver files, and the driver update
DriverFiles ==
    /\ At("files")
    /\ \E found \in {"ok", "no browser file", "no driver type", "no driver file", "update failed"} :
        IF found = "ok" THEN Stage([env EXCEPT !.pc = "create"], <<>>)
        ELSE Return(1, env, <<Ev("setup failed", found)>>)

\* core.FreeBitcoinFaucet(...): __new__ gives None when the driver cannot
\* start; with QUICK_START __init__ opens the site and, when that worked,
\* signs in, and drops both results
CreateFaucet ==
    /\ At("create")
    /\ \E started \in BOOLEAN, opened \in BOOLEAN, signed \in BOOLEAN :
        IF ~started THEN Return(1, env, <<Ev("setup failed", "no driver")>>)
        ELSE IF args.QUICK_START
        THEN Stage([env EXCEPT !.pc = "quick", !.driver = "running",
                               !.signed = IF ~opened THEN "" ELSE IF signed THEN "ok" ELSE "failed"],
                   <<Ev("create", None), Ev("open", 0)>>
                       \o (IF opened THEN <<Ev("sign_in", signed)>> ELSE <<>>))
        ELSE Stage([env EXCEPT !.pc = "open", !.driver = "running", !.attempt = 1,
                               !.timeout = args.ON_UNAVAILABLE_ATTEMPTS_TIMEOUT],
                   <<Ev("create", None)>>)

\* the check after a quick start
QuickCheck ==
    /\ At("quick")
    /\ \E available \in BOOLEAN, authenticated \in BOOLEAN :
        IF ~available \/ ~authenticated
        THEN Return(1, Quit(env), <<Ev("quit", None)>>)
        ELSE Stage([env EXCEPT !.pc = "profile", !.auth = TRUE], <<>>)

\* one turn of the open-site loop; its counter and timeout are not read
\* again once the loop is left
OpenSite ==
    /\ At("open")
    /\ \E ok \in BOOLEAN :
        IF ok THEN Stage([env EXCEPT !.pc = "sign_in", !.attempt = 0, !.timeout = 0],
                         <<Ev("open", env.attempt)>>)
        ELSE IF env.attempt = args.ON_UNAVAILABLE_ATTEMPTS
        THEN Return(1, Quit(env), <<Ev("open", env.attempt), Ev("quit", None)>>)
        ELSE /\ env.attempt < MaxTries
             /\ Stage([env EXCEPT !.attempt = @ + 1,
                                  !.timeout = @ * args.ON_UNAVAILABLE_ATTEMPTS_TIMEOUT_INCREASE],
                      <<Ev("open", env.attempt), Ev("sleep", env.timeout)>>)

\* SignIn that goes on after a sign-in that failed
SignIn_goes_on ==
    /\ At("sign_in")
    /\ \E r \in {"ok", "failed", "StaleElementReferenceException"} :
        CASE r = "ok" -> Stage([env EXCEPT !.pc = "profile", !.auth = TRUE, !.signed = "ok"],
                               <<Ev("sign_in", TRUE)>>)
          [] r = "failed" -> Stage([env EXCEPT !.pc = "profile", !.signed = "failed"],
                                   <<Ev("sign_in", FALSE)>>)
          [] OTHER -> Abort(r, <<>>)

\* faucet.sign_in(...) of the step-by-step start
SignIn ==
    /\ At("sign_in")
    /\ \E r \in {"ok", "failed", "StaleElementReferenceException"} :
        CASE r = "ok" -> Stage([env EXCEPT !.pc = "profile", !.auth = TRUE, !.signed = "ok"],
                               <<Ev("sign_in", TRUE)>>)
          [] r = "failed" -> Return(1, Quit([env EXCEPT !.signed = "failed"]),
                                    <<Ev("sign_in", FALSE), Ev("quit", None)>>)
          [] OTHER -> Abort(r, <<>>)

\* the user's data, the three preference toggles and the starting balance;
\* the reads of the user's data and of the balance let a reference gone stale
\* through
Profile ==
    /\ At("profile")
    /\ \/ Abort("StaleElementReferenceException", <<>>)
       \/ Abort("StaleElementReferenceException", <<Ev("toggles", None)>>)
       \/ Stage([env EXCEPT !.pc = "round", !.num = 1],
                <<Ev("toggles", None), Ev("starting balance", None)>>)

\* the head of the loop over the free plays
Round ==
    /\ At("round")
    /\ Stage([env EXCEPT !.pc = "attempt", !.fattempt = 1, !.is_played = FALSE],
             <<Ev("round", env.num)>>)

\* Attempt that never refreshes
Attempt_unrefreshed ==
    /\ At("attempt")
    /\ Stage([env EXCEPT !.pc = "countdown"], <<Ev("attempt", env.fattempt)>>)

\* the head of the loop over the attempts of one free play
Attempt ==
    /\ At("attempt")
    /\ IF env.fattempt > 1
       THEN Stage([env EXCEPT !.pc = "refresh", !.att = 1, !.back = "countdown",
                              !.rtimeout = args.ON_UNAVAILABLE_ATTEMPTS_TIMEOUT],
                  <<Ev("attempt", env.fattempt), Ev("is_refreshed", None)>>)
       ELSE Stage([env EXCEPT !.pc = "countdown"], <<Ev("attempt", env.fattempt)>>)

\* Refresh that starts over at attempt ON_UNAVAILABLE_ATTEMPTS
Refresh_starts_over ==
    /\ At("refresh")
    /\ \E ok \in BOOLEAN :
        IF ok THEN Stage([env EXCEPT !.pc = env.back, !.back = "", !.att = 0, !.rtimeout = 0],
                         <<Ev("refresh", env.att), Ev("refreshed", env.back)>>)
        ELSE IF env.att = args.ON_UNAVAILABLE_ATTEMPTS
        THEN Stage([env EXCEPT !.att = 1, !.rtimeout = args.ON_UNAVAILABLE_ATTEMPTS_TIMEOUT],
                   <<Ev("refresh", env.att), Ev("sleep", env.rtimeout)>>)
        ELSE /\ env.att < MaxTries
             /\ Stage([env EXCEPT !.att = @ + 1,
                                  !.rtimeout = @ * args.ON_UNAVAILABLE_ATTEMPTS_TIMEOUT_INCREASE],
                      <<Ev("refresh", env.att), Ev("sleep", env.rtimeout)>>)

\* Refresh whose timeout grows by addition
Refresh_additive ==
    /\ At("refresh")
    /\ \E ok \in BOOLEAN :
        IF ok THEN Stage([env EXCEPT !.pc = env.back, !.back = "", !.att = 0, !.rtimeout = 0],
                         <<Ev("refresh", env.att), Ev("refreshed", env.back)>>)
        ELSE IF env.att = args.ON_UNAVAILABLE_ATTEMPTS
        THEN Stage([env EXCEPT !.pc = "sign_out", !.back = "", !.att = 0, !.rtimeout = 0],
                   <<Ev("refresh", env.att), Ev("gave up", None)>>)
        ELSE /\ env.att < MaxTries
             /\ Stage([env EXCEPT !.att = @ + 1,
                                  !.rtimeout = @ + args.ON_UNAVAILABLE_ATTEMPTS_TIMEOUT_INCREASE],
                      <<Ev("refresh", env.att), Ev("sleep", env.rtimeout)>>)

\* Refresh that gives up one attempt late
Refresh_one_more ==
    /\ At("refresh")
    /\ \E ok \in BOOLEAN :
        IF ok THEN Stage([env EXCEPT !.pc = env.back, !.back = "", !.att = 0, !.rtimeout = 0],
                         <<Ev("refresh", env.att), Ev("refreshed", env.back)>>)
        ELSE IF env.att = args.ON_UNAVAILABLE_ATTEMPTS + 1
        THEN Stage([env EXCEPT !.pc = "sign_out", !.back = "", !.att = 0, !.rtimeout = 0],
                   <<Ev("refresh", env.att), Ev("gave up", None)>>)
        ELSE /\ env.att < MaxTries
             /\ Stage([env EXCEPT !.att = @ + 1,
                                  !.rtimeout = @ * args.ON_UNAVAILABLE_ATTEMPTS_TIMEOUT_INCREASE],
                      <<Ev("refresh", env.att), Ev("sleep", env.rtimeout)>>)

\* one turn of the loop of is_refreshed, whose locals go when it returns;
\* when it gives up, the attempts and, nothing having been played, the free
\* plays end
Refresh ==
    /\ At("refresh")
    /\ \E ok \in BOOLEAN :
        IF ok THEN Stage([env EXCEPT !.pc = env.back, !.back = "", !.att = 0, !.rtimeout = 0],
                         <<Ev("refresh", env.att), Ev("refreshed", env.back)>>)
        ELSE IF env.att = args.ON_UNAVAILABLE_ATTEMPTS
        THEN Stage([env EXCEPT !.pc = "sign_out", !.back = "", !.att = 0, !.rtimeout = 0],
                   <<Ev("refresh", env.att), Ev("gave up", None)>>)
        ELSE /\ env.att < MaxTries
             /\ Stage([env EXCEPT !.att = @ + 1,
                                  !.rtimeout = @ * args.ON_UNAVAILABLE_ATTEMPTS_TIMEOUT_INCREASE],
                      <<Ev("refresh", env.att), Ev("sleep", env.rtimeout)>>)

\* Countdown that sleeps for the countdown alone
Countdown_no_extra ==
    /\ At("countdown")
    /\ \E delay \in {0, 1}, available \in BOOLEAN :
        LET slept   == <<Ev("countdown", delay), Ev("countdown sleep", delay)>>
            checked == IF args.FREE_PLAY_AFTER_COUNTDOWN_REFRESH THEN <<>>
                       ELSE <<Ev("is_available", available)>>
        IN  IF delay = 0 THEN Stage([env EXCEPT !.pc = "ready"], <<Ev("countdown", 0)>>)
            ELSE IF args.FREE_PLAY_AFTER_COUNTDOWN_REFRESH \/ ~available
            THEN Stage([env EXCEPT !.pc = "refresh", !.att = 1, !.back = "ready",
                                   !.rtimeout = args.ON_UNAVAILABLE_ATTEMPTS_TIMEOUT],
                       slept \o checked \o <<Ev("is_refreshed", None)>>)
            ELSE Stage([env EXCEPT !.pc = "ready"], slept \o checked)

\* the countdown, the sleep until it has run out and what follows the sleep:
\* is_refreshed is called when FREE_PLAY_AFTER_COUNTDOWN_REFRESH is set or
\* else when is_available answers no
Countdown ==
    /\ At("countdown")
    /\ \E delay \in {0, 1}, available \in BOOLEAN :
        LET slept   == <<Ev("countdown", delay),
                         Ev("countdown sleep", delay + args.FREE_PLAY_AFTER_COUNTDOWN_DELAY)>>
            checked == IF args.FREE_PLAY_AFTER_COUNTDOWN_REFRESH THEN <<>>
                       ELSE <<Ev("is_available", available)>>
        IN  IF delay = 0 THEN Stage([env EXCEPT !.pc = "ready"], <<Ev("countdown", 0)>>)
            ELSE IF args.FREE_PLAY_AFTER_COUNTDOWN_REFRESH \/ ~available
            THEN Stage([env EXCEPT !.pc = "refresh", !.att = 1, !.back = "ready",
                                   !.rtimeout = args.ON_UNAVAILABLE_ATTEMPTS_TIMEOUT],
                       slept \o checked \o <<Ev("is_refreshed", None)>>)
            ELSE Stage([env EXCEPT !.pc = "ready"], slept \o checked)

\* What the page shows to play_free_play: the captcha box gets checked
\* (is_ready_free_play_with_captcha), the cost of a play without captcha and
\* the balance of reward points, the button to play without captcha works
\* (is_ready_free_play_without_captcha), the play button is displayed, and
\* the result comes up after the click.  In a run of scenario the play costs
\* as much as the balance holds or one point more.
PlayPages == [with_captcha : BOOLEAN, cost : {1, 2}, balance_rp : {1}, without_captcha : BOOLEAN,
              ready : BOOLEAN, result : BOOLEAN]

\* NotPlayed that allows one attempt more than FREE_PLAY_ATTEMPTS
NotPlayed_one_more(did) ==
    IF env.fattempt = args.FREE_PLAY_ATTEMPTS + 1
    THEN Stage([env EXCEPT !.pc = "sign_out"], did)
    ELSE /\ env.fattempt < MaxPlayAttempts + 1
         /\ Stage([env EXCEPT !.pc = "attempt", !.fattempt = @ + 1], did)

\* NotPlayed that ends the free play at any attempt that did not play
NotPlayed_gives_up(did) ==
    Stage([env EXCEPT !.pc = "sign_out"], did)

\* the rest of an attempt that did not play: the last attempt ends the free
\* plays, any other is followed by the next
NotPlayed(did) ==
    IF env.fattempt = args.FREE_PLAY_ATTEMPTS
    THEN Stage([env EXCEPT !.pc = "sign_out"], did)
    ELSE /\ env.fattempt < MaxPlayAttempts
         /\ Stage([env EXCEPT !.pc = "attempt", !.fattempt = @ + 1], did)

\* the readiness check, the bonuses and the play of one attempt;
\* activate_bonuses lets through the ValueError of a key it refuses and what
\* its reads of the tables raise, play_free_play what its reads of the cost
\* and of the reward points raise
Play ==
    /\ At("ready")
    /\ \/ NotPlayed(<<Ev("ready", FALSE)>>)
       \/ \E bonuses \in {b \in BOOLEAN : b => args.BONUSES} :
            LET did == <<Ev("ready", TRUE)>> \o (IF bonuses THEN <<Ev("activate_bonuses", None)>> ELSE <<>>)
            IN  \/ \E fault \in (Faults \cup {"ValueError"}) \ {""} :
                    /\ bonuses
                    /\ Abort(fault, did)
                \/ /\ args.CHECK_FOR_CAPTCHA
                   /\ Abort("StaleElementReferenceException", did)
                \/ \E page \in PlayPages :
                    \E played \in {play_free_play(args.CHECK_FOR_CAPTCHA, page)} :
                        IF played.ret
                        THEN Stage([env EXCEPT !.pc = "results", !.is_played = TRUE],
                                   did \o played.acts \o <<Ev("played", None)>>)
                        ELSE NotPlayed(did \o played.acts)

\* what follows a free play that was played: the winnings and the balances
\* are read and logged, the modal is closed when CLOSE_AFTER_FREE_PLAY_MODAL,
\* read from the settings at this point, is set, and the sound is played
AfterPlay(close) ==
    <<Ev("winnings", None), Ev("balances", None), Ev("CLOSE_AFTER_FREE_PLAY_MODAL", close)>>
        \o (IF close THEN <<Ev("close_after_free_play_modal", None)>> ELSE <<>>)
        \o <<Ev("play_free_play_sound", None)>>

\* Results that goes on to the next free play whatever FREE_PLAY_NUM
Results_unbounded ==
    /\ At("results")
    /\ \/ \E fault \in Faults \ {""} : Abort(fault, <<>>)
       \/ Abort("StaleElementReferenceException", <<Ev("winnings", None)>>)
       \/ \E close \in BOOLEAN :
            \/ /\ env.num < MaxRounds
               /\ Stage([env EXCEPT !.pc = "round", !.num = @ + 1], AfterPlay(close))
            \/ /\ env.num >= MaxRounds
               /\ Stage([env EXCEPT !.pc = "sign_out"], AfterPlay(close))

\* Results that plays no sound and leaves the modal alone
Results_no_sound ==
    /\ At("results")
    /\ \/ \E fault \in Faults \ {""} : Abort(fault, <<>>)
       \/ Abort("StaleElementReferenceException", <<Ev("winnings", None)>>)
       \/ IF env.num = args.FREE_PLAY_NUM
          THEN Stage([env EXCEPT !.pc = "sign_out"], <<Ev("winnings", None), Ev("balances", None)>>)
          ELSE /\ env.num < MaxRounds
               /\ Stage([env EXCEPT !.pc = "round", !.num = @ + 1],
                        <<Ev("winnings", None), Ev("balances", None)>>)

\* the winnings and the balance after a free play; the reads let through a
\* reference gone stale and, winning_wof, a blank text
Results ==
    /\ At("results")
    /\ \/ \E fault \in Faults \ {""} : Abort(fault, <<>>)
       \/ Abort("StaleElementReferenceException", <<Ev("winnings", None)>>)
       \/ \E close \in BOOLEAN :
            IF env.num = args.FREE_PLAY_NUM
            THEN Stage([env EXCEPT !.pc = "sign_out"], AfterPlay(close))
            ELSE /\ env.num < MaxRounds
                 /\ Stage([env EXCEPT !.pc = "round", !.num = @ + 1], AfterPlay(close))

\* SignOut that quits the driver before it signs out
SignOut_quits_first ==
    /\ At("sign_out")
    /\ \E expired \in BOOLEAN, left \in BOOLEAN :
        LET auth      == env.auth /\ ~expired
            left_site == auth /\ left
        IN  Return(IF left_site THEN 0 ELSE 1,
                   Quit([env EXCEPT !.auth = auth /\ ~left]),
                   <<Ev("quit", None), Ev("sign_out", left_site)>>)

\* is_authenticated = not faucet.sign_out(); faucet.quit(); return
\* int(is_authenticated).  The logout link is there as long as the user is
\* authenticated, which the session may have ceased to be (expired); the
\* click on it signs the user out or not (left).
SignOut ==
    /\ At("sign_out")
    /\ \E expired \in BOOLEAN, left \in BOOLEAN :
        LET auth      == env.auth /\ ~expired
            left_site == auth /\ left
        IN  Return(IF left_site THEN 0 ELSE 1,
                   Quit([env EXCEPT !.auth = auth /\ ~left]),
                   <<Ev("sign_out", left_site), Ev("quit", None)>>)

NextScenario ==
    \/ DriverFiles
    \/ CreateFaucet
    \/ QuickCheck
    \/ OpenSite
    \/ SignIn
    \/ Profile
    \/ Round
    \/ Attempt
    \/ Refresh
    \/ Countdown
    \/ Play
    \/ Results
    \/ SignOut

SpecScenario == InitScenario /\ [][NextScenario]_vars

\* The runs whose loops are all bounded by the settings: FREE_PLAY_NUM,
\* FREE_PLAY_ATTEMPTS and ON_UNAVAILABLE_ATTEMPTS are positive.
Bounded == args.FREE_PLAY_NUM > 0 /\ args.FREE_PLAY_ATTEMPTS > 0 /\ args.ON_UNAVAILABLE_ATTEMPTS > 0

InitBounded == InitScenario /\ Bounded

\* scenario is one sequential function: whenever a step of it can be taken
\* it is taken, every wait of the driver and every sleep coming to an end
SpecScenarioFair == InitBounded /\ [][NextScenario]_vars /\ WF_vars(NextScenario)

\* ------------------------------------------------------------------ claims

\* how the wait of the recorded _get_elements call ended
WaitEnd == IF args.wait_until THEN Until(env) ELSE UntilNot(env)

\* C1: whatever the condition family and the log level, a _get_elements call
\* whose wait times out returns an empty list, raises nothing and emits
\* exactly one well-formed log record at the caller's log level.
C1_TimeoutLogsOnce ==
    (op = "_get_elements" /\ WaitEnd.k = "TimeoutException") =>
        /\ ret = <<>>
        /\ exc = ""
        /\ Len(log) = 1
        /\ log[1].level = args.log_level
        /\ log[1].ok

\* C2: if the element a page-state accessor found goes stale before its text
\* is read, the accessor yields its empty or zero result and no
\* StaleElementReferenceException leaves it.
C2_StaleReadAbsorbed ==
    (/\ op \in NumAccessors \cup {"user_id", "_get_bonus_keys", "_get_bonus_costs"}
     /\ \E i \in 1..Len(env) : env[i].stale) =>
        /\ exc = ""
        /\ ret = (IF op \in NumAccessors THEN 0 ELSE <<>>)

\* C3: with wait_until=False, _get_elements returns a non-empty list whenever
\* the condition evaluates false within the timeout, and an empty list only
\* when the timeout elapses or the reference goes stale.
C3_UntilNotSucceedsOnFalse ==
    (op = "_get_elements" /\ ~args.wait_until) =>
        (ret = <<>> <=> WaitEnd.k \in {"TimeoutException", "StaleElementReferenceException"})

\* C4: for every string and every target type in {int, Decimal, float},
\* str2num returns the type's zero when the string is empty, blank or not
\* convertible, returns the converted number otherwise, and never raises.
C4_Str2numTotal ==
    op = "str2num" =>
        /\ exc = ""
        /\ LET s == args.string
               convertible == IF args.obj = "int" THEN IntLiteral(s) ELSE DecLiteral(s)
           IN  IF Strip(s) = <<>> \/ ~convertible
               THEN ret = 0
               ELSE ret = (IF args.obj = "int" THEN IntValue(s) ELSE DecValue(s))

\* a Decimal conversion of a malformed, non-blank string came back as zero
C4_Witness ==
    /\ op = "str2num"
    /\ args.obj = "Decimal"
    /\ args.string = <<"1", "x">>
    /\ ret = 0
    /\ exc = ""
    /\ Len(log) = 1

\* the text an accessor reads is empty, blank, or holds a letter
Garbled(text) == Strip(text) = <<>> \/ \E i \in 1..Len(text) : text[i] = "x"

\* C5: when the text of the located element is empty, blank or malformed, a
\* numeric accessor yields zero for that field and raises nothing.
C5_MalformedTextIsZero ==
    /\ (/\ op \in NumAccessors
         /\ env # <<>>
         /\ ~env[1].stale
         /\ Garbled(env[1].text)) => (exc = "" /\ ret = 0)
    /\ (/\ op \in {"_get_bonus_keys", "_get_bonus_costs"}
         /\ \A i \in 1..Len(env) : ~env[i].stale) =>
            /\ exc = ""
            /\ Len(ret) = Len(env)
            /\ \A i \in 1..Len(env) : Garbled(env[i].text) => ret[i] = 0

\* the recorded call logged its success message
SuccessLogged ==
    \E i \in 1..Len(log) :
        log[i].msg \in {"checked", "filled", "activated"} /\ log[i].level = args.if_success_log_level

\* the recorded setter call found its element and read its current value
SetterRead ==
    \/ op = "_state_checkbox" /\ env.span # <<>> /\ ~env.span[1].stale
    \/ op = "_value_input_field" /\ env.field # <<>> /\ ~env.field[1].stale

\* the value a setter was asked for (None: no change asked) and the value it
\* read before acting
Asked ==
    IF op = "_state_checkbox" THEN args.value
    ELSE IF args.value = <<>> THEN None ELSE Some(args.value)

ReadBefore ==
    IF op = "_state_checkbox" THEN Some(Checked(env.span[1].text)) ELSE Some(env.field[1].text)

\* the value the page shows once the setter has acted
ReadAfter ==
    IF op = "_state_checkbox" THEN Some(Checked(env.after.text)) ELSE Some(env.after.text)

\* C6: setter idempotence: when _state_checkbox is called with a target equal
\* to the state it reads, or _value_input_field with a value (a non-empty
\* one: the empty string asks for no change) equal to the value it reads, no
\* DOM action is made, success is logged and the unchanged value is returned.
C6_SetterIdempotent ==
    (SetterRead /\ Asked # None /\ Asked = ReadBefore) =>
        /\ acts = <<>>
        /\ exc = ""
        /\ SuccessLogged
        /\ ret = ReadBefore

\* a checkbox asked to be checked was already checked
C6_Witness ==
    /\ op = "_state_checkbox"
    /\ SetterRead
    /\ args.value = Some(TRUE)
    /\ ReadBefore = Some(TRUE)
    /\ acts = <<>>
    /\ SuccessLogged

\* what the recorded _active_bonus call had to read: the keys of the table,
\* the active key before any click and after one, the cost of the asked key
\* with the cost of a play when captchas are checked for, the reward points
TableKeys == get_bonus_keys(PollsFor(ALL, env.keys))

FirstRead == get_active_bonus_key(env.active[args.k], TableKeys.ret)

ReRead == get_active_bonus_key(env.after[args.k], TableKeys.ret)

ClickMade == \E i \in 1..Len(acts) : acts[i].a = "click"

Place == Index(TableKeys.ret, args.value)

Costs == get_bonus_costs(PollsFor(ALL, env.costs))

Affordable ==
    /\ Costs.exc = ""
    /\ Place <= Len(Costs.ret)
    /\ Costs.ret[Place]
           + (IF args.check_for_captcha THEN free_play_cost(PollsFor(ONE, env.fpc)).ret ELSE 0)
         <= balance_rp(PollsFor(ONE, env.rp)).ret

\* the recorded _active_bonus call was asked for a key of the table while no
\* bonus was active
RedeemAsked ==
    /\ op = "_active_bonus"
    /\ TableKeys.exc = ""
    /\ args.value # 0
    /\ args.value \in Range(TableKeys.ret)
    /\ FirstRead.exc = ""
    /\ FirstRead.ret = Some(0)

\* C7: for each write-capable accessor (_state_checkbox, _value_input_field,
\* _active_bonus) success is logged only if the value read again after the
\* action, or the unchanged value when no action was needed, equals the
\* requested value; when the element to click is missing or the value read
\* again differs, no success is logged and the actual current value is
\* returned.
C7_SuccessOnlyIfConfirmed ==
    /\ (SetterRead /\ Asked # None) =>
        LET final == IF acts = <<>> THEN ReadBefore ELSE ReadAfter
        IN  /\ SuccessLogged => (exc = "" /\ final = Asked /\ ret = Asked)
            /\ (exc = "" /\ final # Asked) => (~SuccessLogged /\ ret = final)
    /\ op = "_active_bonus" =>
        /\ SuccessLogged =>
            /\ exc = ""
            /\ ClickMade
            /\ ReRead.ret = Some(args.value)
            /\ ret = Some(args.value)
        /\ (ClickMade /\ exc = "" /\ ReRead.exc = "" /\ ReRead.ret # Some(args.value)) =>
            (~SuccessLogged /\ ret = ReRead.ret)
        /\ (RedeemAsked /\ Affordable /\ Place > Len(env.buttons)) =>
            (~ClickMade /\ ~SuccessLogged /\ exc = "" /\ ret = Some(0))

\* a click that did not change the checkbox: no success, the old state back
C7_Witness ==
    /\ op = "_state_checkbox"
    /\ SetterRead
    /\ args.value = Some(TRUE)
    /\ acts # <<>>
    /\ exc = ""
    /\ ret = Some(FALSE)
    /\ ~SuccessLogged

\* the recorded activate_bonuses call: was the setter of its i-th bonus run,
\* and where in the trace a step on a category stands
SetAt(i) == \E p \in 1..Len(acts) : acts[p].a = "set" /\ acts[p].on = args.bonuses[i].k

Pos(a, k) == CHOOSE p \in 1..Len(acts) : acts[p].a = a /\ acts[p].on = k

Returned == op = "activate_bonuses" /\ exc = ""

\* the first bonus of the recorded call that did not read back as active
Failed == {i \in 1..Len(ret) : ~IsActive(ret[i].v)}

FirstFailed == CHOOSE i \in Failed : \A j \in Failed : i <= j

\* C8 as stated: an attempt for a requested bonus is made only if every
\* earlier requested bonus is active with its requested key after its own
\* attempt.
C8_AttemptOnlyAfterRequestedKeys ==
    Returned =>
        \A i \in 1..Len(args.bonuses) :
            SetAt(i) =>
                \A j \in 1..(i - 1) :
                    args.bonuses[j].v # 0 => ret[j].v = Some(args.bonuses[j].v)

\* C8: activate_bonuses takes the bonuses in the order of the mapping, and it
\* attempts a bonus exactly when every earlier bonus of the call read back as
\* active after its own turn, with a key of its table that need not be the
\* requested one; once a bonus reads back as not active (0 or None) no later
\* bonus is attempted.
C8_AttemptOnlyAfterActive ==
    Returned =>
        /\ Len(ret) = Len(args.bonuses)
        /\ \A i \in 1..Len(ret) :
            /\ ret[i].k = args.bonuses[i].k
            /\ SetAt(i) <=> \A j \in 1..(i - 1) : IsActive(ret[j].v)
            /\ \A j \in 1..(i - 1) :
                /\ Pos("get", ret[j].k) < Pos("get", ret[i].k)
                /\ SetAt(i) => Pos("get", ret[j].k) < Pos("set", ret[i].k)

\* the first of two bonuses could not be paid for: the second was not tried
C8_Witness ==
    /\ Returned
    /\ Len(args.bonuses) = 2
    /\ args.bonuses[1].v # 0
    /\ args.bonuses[2].v # 0
    /\ ret[1].v = Some(0)
    /\ SetAt(1)
    /\ ~SetAt(2)

\* the state of category k on the page the recorded activate_bonuses call
\* leaves: the one after a click when it clicked there
LastRead(k) ==
    get_active_bonus_key(IF \E p \in 1..Len(acts) : acts[p] = Act("click", k)
                         THEN env.after[k] ELSE env.active[k],
                         TableKeys.ret).ret

C10_ClickOnlyWhenAffordable ==
    op = "_active_bonus" =>
        /\ ClickMade => (RedeemAsked /\ FirstRead.ret # Some(args.value) /\ Affordable)
        /\ (ClickMade /\ exc = "" /\ ret = Some(args.value)) =>
            (ReRead.exc = "" /\ ReRead.ret = Some(args.value))
        /\ (RedeemAsked /\ exc = "" /\ ret = Some(args.value)) => ClickMade

\* with captchas checked for, an affordable bonus was clicked and read back
C10_Witness ==
    /\ op = "_active_bonus"
    /\ args.check_for_captcha
    /\ args.value = 10
    /\ ClickMade
    /\ ret = Some(10)
    /\ exc = ""

\* the key shown by the element naming the active bonus of the recorded
\* _active_bonus call, as str2num reads it
ActiveKey == NumOf(env.active[args.k][1], "replace('%', '').split[0]", "int").ret

\* C11: in read mode (value 0) _active_bonus returns 0 exactly when no bonus
\* of the category is active, None exactly when an active bonus is detected
\* whose key is not in the scraped key list, and the identified key
\* otherwise.
C11_ReadModeStates ==
    (op = "_active_bonus" /\ args.value = 0 /\ exc = "") =>
        /\ ret = Some(0) <=> env.active[args.k] = <<>>
        /\ ret = None <=> (env.active[args.k] # <<>> /\ ActiveKey \notin Range(TableKeys.ret))
        /\ (ret # Some(0) /\ ret # None) => ret = Some(ActiveKey)

\* C12: version_info is always a tuple of 4 non-negative integers got from
\* the version string alone: of its first four dot-separated fields every
\* all-digit one gives its value, every other one 0, and missing trailing
\* fields give 0.
C12_VersionInfoFourFields ==
    op = "version_info" =>
        /\ exc = ""
        /\ Len(ret) = 4
        /\ \A i \in 1..4 :
            /\ ret[i] \in Nat
            /\ ret[i] = (IF i <= Len(env) /\ env[i] # <<>> /\ \A j \in 1..Len(env[i]) : env[i][j] \in Digits
                         THEN DigitsVal(env[i]) ELSE 0)

\* "10.x.01" gave (10, 0, 1, 0): a field that is no number and a missing one
C12_Witness ==
    /\ op = "version_info"
    /\ args.version = <<"1", "0", ".", "x", ".", "0", "1">>
    /\ ret = <<10, 0, 1, 0>>

\* the timer section of the recorded free_play_countdown call was found
SectionFound == Until(env.section).k = "elem"

\* the parts of the timer were looked up and handed to the reader
PartsRead == SectionFound /\ ~env.lost

\* a record of level ERROR or above is in the log
ErrorLogged == \E i \in 1..Len(log) : log[i].level >= 40

\* some part of the timer loses its reference before it is read
StalePart == \E i \in 1..Len(env.parts) : env.parts[i].stale

\* the number str2num makes of the text of part i
PartValue(i) == str2num(Strip(env.parts[i].text), "int").ret

\* C13 (as stated): free_play_countdown never raises; it returns
\* minutes * 60 + seconds when the timer shows two parts, and 0 when the
\* section is absent, when the timer has fewer than two parts, with an error
\* logged, or when a part goes stale while being read, with an error logged.
C13_CountdownAsStated ==
    op = "free_play_countdown" =>
        /\ exc = ""
        /\ (PartsRead /\ Len(env.parts) = 2 /\ ~StalePart) => ret = PartValue(1) * 60 + PartValue(2)
        /\ ~SectionFound => ret = 0
        /\ (PartsRead /\ Len(env.parts) < 2) => (ret = 0 /\ ErrorLogged)
        /\ (PartsRead /\ StalePart) => (ret = 0 /\ ErrorLogged)

\* C13 (amended): as above, but the error for too few parts is logged when
\* the timer shows exactly one part; a timer with no part at all gives 0
\* with no record of level ERROR.
C13_CountdownOnePartLogged ==
    op = "free_play_countdown" =>
        /\ exc = ""
        /\ (PartsRead /\ Len(env.parts) = 2 /\ ~StalePart) => ret = PartValue(1) * 60 + PartValue(2)
        /\ ~SectionFound => ret = 0
        /\ (PartsRead /\ Len(env.parts) = 1) => (ret = 0 /\ ErrorLogged)
        /\ (PartsRead /\ env.parts = <<>>) => (ret = 0 /\ ~ErrorLogged)
        /\ (PartsRead /\ StalePart) => (ret = 0 /\ ErrorLogged)

\* one minute and ten seconds were read as 70, and a timer of one part gave
\* 0 with the error in the log
C13_Witness ==
    /\ op = "free_play_countdown"
    /\ PartsRead
    /\ \/ /\ env.parts = <<Elem(<<"1">>, FALSE), Elem(<<" ", "1", "0">>, FALSE)>>
          /\ ret = 70
       \/ /\ Len(env.parts) = 1
          /\ ~StalePart
          /\ ret = 0
          /\ log[Len(log)].msg = "Countdown timer has less than two sections."

\* the recorded activate_bonuses call was refused: a ValueError left it
Refused == op = "activate_bonuses" /\ exc = "ValueError"

\* C18: when the BONUSES mapping holds a category key outside {btc, lt, wof}
\* or a target key that is not in the scraped key table, the failure is
\* raised before any redeem click has been made for any bonus of the mapping.
C18_RefusedBeforeAnyClick ==
    Refused => ~ClickMade

\* scenario() has returned from a run set for one free play of one attempt,
\* on a page whose countdown read 0 and that reported readiness to play
OnePlayRun ==
    /\ op = "scenario"
    /\ env.pc = "returned"
    /\ args.FREE_PLAY_NUM = 1
    /\ args.FREE_PLAY_ATTEMPTS = 1
    /\ env.countdown = Some(0)
    /\ env.ready = Some(TRUE)

\* C14 (as stated): with FREE_PLAY_NUM = 1 and FREE_PLAY_ATTEMPTS = 1 and a
\* page that reports countdown 0 and readiness to play on the first check,
\* the run makes exactly one play click, reads winnings and balance once and
\* goes to sign-out without a second round, a refresh or a countdown sleep.
C14_OnePlayAsStated ==
    OnePlayRun =>
        /\ env.clicks = 1
        /\ env.winnings = 1
        /\ env.balances = 1
        /\ env.num = 1
        /\ ~env.refreshed
        /\ ~env.slept

\* C14 (amended): such a run never starts a second round, refreshes or
\* sleeps through a countdown; it makes exactly one play click and reads
\* winnings and balance once when play_free_play succeeds, and when
\* play_free_play fails, before its click or after it, the run makes at most
\* one play click, reads neither winnings nor balance and goes to sign-out.
C14_OnePlayWhenPlayed ==
    OnePlayRun =>
        /\ env.num = 1
        /\ ~env.refreshed
        /\ ~env.slept
        /\ env.is_played => (env.clicks = 1 /\ env.winnings = 1 /\ env.balances = 1)
        /\ ~env.is_played => (env.clicks <= 1 /\ env.winnings = 0 /\ env.balances = 0)

\* the run of one free play that was played and signed out
C14_Witness ==
    /\ OnePlayRun
    /\ env.is_played
    /\ env.clicks = 1
    /\ env.winnings = 1
    /\ ret = Some(0)

\* scenario() has returned from its last statement, after the sign-out
AtTerminalStep == op = "scenario" /\ env.pc = "returned" /\ Has(acts, "sign_out")

\* C15: at its terminal step scenario() returns 0 exactly when the run ends
\* with the user not authenticated, and 1 only if the user is still
\* authenticated after the sign-out attempt.
C15_StatusTellsAuthentication ==
    AtTerminalStep =>
        /\ ret = Some(0) <=> ~env.auth
        /\ ret = Some(1) => env.auth

\* scenario() has returned before its last statement: from one of the
\* failures of the files, the driver, the opening of the site, the sign-in or
\* the check after a quick start
FailedStart == op = "scenario" /\ env.pc = "returned" /\ ~Has(acts, "sign_out")

\* the run has gone no further than the start: no preference toggled, no
\* countdown read, no play click
NothingPlayed == ~env.toggled /\ env.countdown = None /\ env.clicks = 0

\* C16 (as stated): every setup or sign-in failure makes scenario() return 1
\* without applying the preference toggles, reading the countdown or issuing
\* a play click; in particular the run is at or past no later stage once a
\* sign-in has failed.
C16_FailureEndsRunAsStated ==
    /\ FailedStart => (ret = Some(1) /\ NothingPlayed)
    /\ (op = "scenario" /\ env.signed = "failed") =>
        (NothingPlayed /\ env.pc \in {"quick", "returned"} /\ (env.pc = "returned" => FailedStart))

\* C16 (amended): a failure of the driver files or of the update, a driver
\* that cannot start, a site unavailable after the allowed open attempts, a
\* failed sign-in of the step-by-step start, and a site unavailable or a user
\* not authenticated after a quick start make scenario() return 1 with no
\* toggle applied, no countdown read and no play click; after a quick start
\* the result of the sign-in itself is dropped.
C16_FailureEndsRun ==
    /\ FailedStart => (ret = Some(1) /\ NothingPlayed)
    /\ (op = "scenario" /\ env.signed = "failed" /\ ~args.QUICK_START) =>
        (FailedStart /\ env.driver = "quit")

\* the sign-in of a step-by-step start failed and the run returned 1
C16_Witness ==
    /\ FailedStart
    /\ ~args.QUICK_START
    /\ env.signed = "failed"
    /\ ret = Some(1)
    /\ env.driver = "quit"

\* C17: once the browser session has been created, every way the run ends
\* goes through the teardown: no exception leaves scenario(), and quit has
\* been executed when scenario() is left.
C17_TeardownAlways ==
    (op = "scenario" /\ env.driver # "none") =>
        /\ env.pc # "raised"
        /\ env.pc = "returned" => env.driver = "quit"

\* the latest stage of the run was attempt k of the loop named by what
\* ("refresh" for is_refreshed, "open" for the open-site loop)
TurnOf(what, k) == acts # <<>> /\ acts[1].a = what /\ acts[1].val = k

\* the attempt of the latest stage failed and another one follows
Retried == Has(acts, "sleep")

\* the loop of the latest stage reported failure: is_refreshed returned
\* False, the open-site loop quit and returned 1
GaveUp == Has(acts, "gave up") \/ (Has(acts, "open") /\ Has(acts, "quit"))

\* C19: with ON_UNAVAILABLE_ATTEMPTS = N > 0 a call of is_refreshed makes at
\* most N refresh attempts and the open-site loop at most N open attempts;
\* each stops at the first attempt that succeeds, reports failure right after
\* the N-th failed attempt without sleeping again, and with N = 0 never
\* reports failure.
C19_AtMostNAttempts ==
    op = "scenario" =>
        LET N == args.ON_UNAVAILABLE_ATTEMPTS
        IN  /\ N > 0 => (env.att <= N /\ env.attempt <= N)
            /\ \A k \in 1..MaxTries :
                (TurnOf("refresh", k) \/ (TurnOf("open", k) /\ ~args.QUICK_START)) =>
                    /\ N > 0 => k <= N
                    /\ GaveUp <=> (~Retried /\ k = N /\ env.pc \in {"sign_out", "returned"})
                    /\ GaveUp => N > 0
                    /\ Retried => (k # N /\ env.att + env.attempt = k + 1)
                    /\ (~GaveUp /\ ~Retried) => (env.att = 0 /\ env.attempt = 0 /\ env.pc \notin {"refresh", "open"})

\* is_refreshed gave up right after its second failed refresh, N being 2
C19_Witness ==
    /\ op = "scenario"
    /\ args.ON_UNAVAILABLE_ATTEMPTS = 2
    /\ TurnOf("refresh", 2)
    /\ Has(acts, "gave up")
    /\ ~Retried

RECURSIVE Power(_, _)
Power(b, e) == IF e = 0 THEN 1 ELSE b * Power(b, e - 1)

\* the seconds slept in the latest stage
Slept == acts[CHOOSE i \in 1..Len(acts) : acts[i].a = "sleep"].val

\* C20: in a call of is_refreshed and in the open-site loop the sleep after
\* the k-th failed attempt is ON_UNAVAILABLE_ATTEMPTS_TIMEOUT times
\* ON_UNAVAILABLE_ATTEMPTS_TIMEOUT_INCREASE to the power k - 1, and every
\* call of is_refreshed starts from the base timeout.
C20_BackoffMultiplies ==
    op = "scenario" =>
        /\ \A k \in 1..MaxTries :
            ((TurnOf("refresh", k) \/ (TurnOf("open", k) /\ ~args.QUICK_START)) /\ Retried) =>
                Slept = args.ON_UNAVAILABLE_ATTEMPTS_TIMEOUT
                            * Power(args.ON_UNAVAILABLE_ATTEMPTS_TIMEOUT_INCREASE, k - 1)
        /\ Has(acts, "is_refreshed") =>
            (env.pc = "refresh" /\ env.att = 1 /\ env.rtimeout = args.ON_UNAVAILABLE_ATTEMPTS_TIMEOUT)

\* in the second free play of a run, the second failed refresh of a call of
\* is_refreshed was followed by a sleep of twice the base timeout
C20_Witness ==
    /\ op = "scenario"
    /\ args.ON_UNAVAILABLE_ATTEMPTS_TIMEOUT_INCREASE = 2
    /\ TurnOf("refresh", 2)
    /\ Retried
    /\ Slept = 2 * args.ON_UNAVAILABLE_ATTEMPTS_TIMEOUT
    /\ env.num = 2


\* ---- C21: the configured numbers bound the rounds, plays, attempts and clicks

\* the free-play loop of this run is over: the run is at sign-out or has
\* returned, after at least one round was started
LoopEnded == op = "scenario" /\ env.pc \in {"sign_out", "returned"} /\ env.num >= 1

\* C21: with FREE_PLAY_NUM = N > 0 at most N rounds are started and at most
\* N plays succeed; with FREE_PLAY_ATTEMPTS = A > 0 a round makes at most A
\* attempts and at most A play clicks; with N = 0 the loop ends only after a
\* round that did not play
C21_NumbersBoundTheLoops ==
    op = "scenario" =>
        /\ args.FREE_PLAY_NUM > 0 =>
               env.num <= args.FREE_PLAY_NUM /\ env.plays <= args.FREE_PLAY_NUM
        /\ args.FREE_PLAY_ATTEMPTS > 0 =>
               env.fattempt <= args.FREE_PLAY_ATTEMPTS /\ env.rclicks <= args.FREE_PLAY_ATTEMPTS
        /\ env.plays <= env.num /\ env.clicks >= env.plays
        /\ (args.FREE_PLAY_NUM = 0 /\ LoopEnded) => ~env.is_played

\* two rounds of two attempts each were configured, and the second round was
\* played at its second click
C21_Witness ==
    /\ LoopEnded /\ env.pc = "returned"
    /\ args.FREE_PLAY_NUM = 2 /\ args.FREE_PLAY_ATTEMPTS = 2
    /\ env.num = 2 /\ env.plays = 2 /\ env.fattempt = 2 /\ env.rclicks = 2


\* ---- C22: what ends a round and what ends the loop of rounds

\* the loop of rounds has just been left
LoopLeft == At("sign_out") /\ env.num >= 1

\* the attempts of the round under way are used up
Exhausted == args.FREE_PLAY_ATTEMPTS > 0 /\ env.fattempt = args.FREE_PLAY_ATTEMPTS

\* C22 as stated: a round ends only on a successful play or when its
\* attempts are used up, and the loop of rounds ends only after a round
\* that did not play or at round FREE_PLAY_NUM
C22_RoundEndsAsStated ==
    /\ At("results") => env.is_played
    /\ LoopLeft => /\ env.is_played \/ Exhausted
                   /\ ~env.is_played \/ env.num = args.FREE_PLAY_NUM

\* C22: a round ends only on a successful play, when its attempts are used
\* up, or when is_refreshed gave up; the loop of rounds ends only after a
\* round that did not play or at round FREE_PLAY_NUM
C22_RoundEndsOrRefreshGaveUp ==
    /\ At("results") => env.is_played
    /\ (At("round") /\ env.num > 1) => env.is_played
    /\ LoopLeft => /\ env.is_played \/ Exhausted \/ Has(acts, "gave up")
                   /\ ~env.is_played \/ env.num = args.FREE_PLAY_NUM

\* a round with attempts left over ended without a play because the refresh
\* gave up
C22_Witness ==
    /\ LoopLeft /\ Has(acts, "gave up") /\ ~env.is_played
    /\ args.FREE_PLAY_ATTEMPTS = 2 /\ env.fattempt = 1


\* ---- C29: the countdown sleep and the refresh after it

\* the step just taken read the countdown
CountdownRead == op = "scenario" /\ Len(acts) >= 1 /\ acts[1].a = "countdown"

\* is_available was asked after the sleep and answered no
ReportedUnavailable == \E i \in 1..Len(acts) : acts[i].a = "is_available" /\ ~acts[i].val

\* C29: a countdown d > 0 is followed by a sleep of d +
\* FREE_PLAY_AFTER_COUNTDOWN_DELAY and then by is_refreshed exactly when
\* FREE_PLAY_AFTER_COUNTDOWN_REFRESH is set or the site is reported
\* unavailable; a countdown of 0 is followed by neither; and a play click
\* comes only in an attempt whose countdown was 0 or slept through
C29_SleepThenRefresh ==
    /\ CountdownRead =>
         IF acts[1].val = 0
         THEN Len(acts) = 1 /\ env.pc = "ready" /\ ~env.aslept
         ELSE /\ Len(acts) >= 2 /\ acts[2].a = "countdown sleep"
              /\ acts[2].val = acts[1].val + args.FREE_PLAY_AFTER_COUNTDOWN_DELAY
              /\ \A i \in 1..Len(acts) : acts[i].a \in {"is_available", "is_refreshed"} => i > 2
              /\ Has(acts, "is_refreshed") <=>
                     (args.FREE_PLAY_AFTER_COUNTDOWN_REFRESH \/ ReportedUnavailable)
              /\ env.pc = (IF Has(acts, "is_refreshed") THEN "refresh" ELSE "ready")
    /\ (op = "scenario" /\ env.aslept) => env.countdown = Some(1)
    /\ (op = "scenario" /\ Has(acts, "play click")) => env.countdown = Some(0) \/ env.aslept

\* the play button was clicked in a first attempt that slept through its
\* countdown and was refreshed because the site was reported unavailable
C29_Witness ==
    /\ op = "scenario" /\ Has(acts, "play click")
    /\ env.aslept /\ env.refreshed /\ env.num = 1 /\ env.fattempt = 1
    /\ ~args.FREE_PLAY_AFTER_COUNTDOWN_REFRESH


\* ---- C30: the refresh at the head of the later attempts

\* C30: the first attempt of a round reads the countdown without a refresh
\* before it, a later attempt reads it only after is_refreshed returned True
\* in that attempt, and every round starts at attempt 1
C30_LaterAttemptsRefreshed ==
    /\ CountdownRead => IF env.fattempt = 1 THEN ~env.arefreshed ELSE env.arefreshed
    /\ (op = "scenario" /\ Has(acts, "round")) => env.pc = "attempt" /\ env.fattempt = 1
    /\ (op = "scenario" /\ Has(acts, "attempt")) =>
           /\ acts[1].a = "attempt" /\ acts[1].val = env.fattempt
           /\ Has(acts, "is_refreshed") <=> env.fattempt > 1
           /\ env.pc = (IF env.fattempt > 1 THEN "refresh" ELSE "countdown")

\* the second attempt of the second round reads the countdown after its
\* refresh
C30_Witness ==
    CountdownRead /\ env.num = 2 /\ env.fattempt = 2 /\ env.arefreshed


\* ---- C28: the run terminates

\* the run has returned after sign_out and quit
SignedOutAndQuit ==
    op = "scenario" /\ env.pc = "returned" /\ Has(acts, "sign_out") /\ Has(acts, "quit")
        /\ env.driver = "quit"

\* the run is over: it has returned or raised
Over == op = "scenario" /\ env.pc \in {"returned", "raised"}

\* C28 as stated: a run with positive FREE_PLAY_NUM, FREE_PLAY_ATTEMPTS and
\* ON_UNAVAILABLE_ATTEMPTS that raises no exception eventually signs out,
\* quits and returns
C28_TerminatesAsStated == <>(SignedOutAndQuit \/ (op = "scenario" /\ env.pc = "raised"))

\* C28: a run with positive FREE_PLAY_NUM, FREE_PLAY_ATTEMPTS and
\* ON_UNAVAILABLE_ATTEMPTS eventually returns or raises, and one that
\* returns after the user was signed in and the profile was read has signed
\* out and quit
C28_Terminates ==
    /\ <>Over
    /\ []((op = "scenario" /\ env.pc = "returned" /\ env.num >= 1) => SignedOutAndQuit)

\* a run of two free plays of two attempts each has signed out, quit and
\* returned after a refresh
C28_Witness ==
    /\ SignedOutAndQuit /\ Bounded /\ env.refreshed
    /\ args.FREE_PLAY_NUM = 2 /\ args.FREE_PLAY_ATTEMPTS = 2 /\ args.ON_UNAVAILABLE_ATTEMPTS = 2
    /\ env.num = 2 /\ env.fattempt = 2


\* ---- C23: sign_in fills the form in order and submits what it has checked

\* the places in acts of the calls of _value_input_field on a field, and of
\* the click on the login button
CallsOn(field) == {i \in 1..Len(acts) : acts[i].a = "_value_input_field" /\ acts[i].on = field}

SubmitClicks == {i \in 1..Len(acts) : acts[i].a = "click" /\ acts[i].on = "login_button"}

\* the fields of the login form in the order of the claim, and the value
\* sign_in has for each
FormFields == <<"login_form_btc_address", "login_form_password", "login_form_2fa">>

Written(k) == IF k = 1 THEN args.address ELSE IF k = 2 THEN args.password ELSE TOTP_now(args.totp_secret)

Wanted(k) == k \in 1..2 \/ args.totp_secret # <<>>

\* what the field reads once Written(k) has been asked for: nothing when it
\* is not there, its content when that is the value already, else its
\* content after typing
ReadBack(k) ==
    LET f == env[FormFields[k]]
    IN  IF f.field = <<>> THEN None
        ELSE IF f.field[1].text = Written(k) THEN Some(Written(k))
        ELSE Some(f.after.text)

\* C23: address, password and, with a secret only, the one-time code are
\* written in that order; the login button is clicked only when address and
\* password are non-empty and every field wanted has been written and reads
\* back the value written; a sign_in that returns with a value missing, a
\* field missing or a field reading back something else returns False
\* without that click; and True is returned only after the click, the
\* logout link being found
C23_SignInOrderAndChecks ==
    op = "sign_in" =>
        /\ \A k \in 1..3 : Cardinality(CallsOn(FormFields[k])) <= 1
        /\ \A k \in 1..3 : \A i \in CallsOn(FormFields[k]) : acts[i].val = Written(k)
        /\ \A j \in 1..3, k \in 1..3 : \A i \in CallsOn(FormFields[j]), l \in CallsOn(FormFields[k]) :
               j < k => i < l
        /\ CallsOn(FormFields[2]) # {} => CallsOn(FormFields[1]) # {}
        /\ CallsOn(FormFields[3]) # {} => CallsOn(FormFields[2]) # {} /\ args.totp_secret # <<>>
        /\ SubmitClicks # {} =>
               /\ Cardinality(SubmitClicks) = 1
               /\ args.address # <<>> /\ args.password # <<>>
               /\ \A k \in 1..3 : Wanted(k) =>
                      /\ CallsOn(FormFields[k]) # {}
                      /\ \A i \in CallsOn(FormFields[k]), c \in SubmitClicks : i < c
                      /\ ReadBack(k) = Some(Written(k))
        /\ (exc = "" /\ \E k \in 1..3 : Wanted(k) /\ (Written(k) = <<>> \/ ReadBack(k) # Some(Written(k)))) =>
               ret = Some(FALSE) /\ SubmitClicks = {}
        /\ ret = Some(TRUE) => SubmitClicks # {} /\ env.logout_link

\* a sign-in with a one-time code: three empty fields were typed into, the
\* button was clicked and the logout link was found
C23_Witness ==
    /\ op = "sign_in" /\ ret = Some(TRUE) /\ args.totp_secret # <<>>
    /\ \A k \in 1..3 : env[FormFields[k]].field = <<Elem(<<>>, FALSE)>>
    /\ \E i \in 1..Len(acts) : acts[i] = Act("send_keys", "login_form_2fa")


\* ---- C24: the bonus tables

\* the keys and the costs scraped by the call
ScrapedKeys == get_bonus_keys(PollsFor("presence_of_all_elements_located", env.keys)).ret

ScrapedCosts == get_bonus_costs(PollsFor("presence_of_all_elements_located", env.costs)).ret

\* C24: the table returned has exactly one entry per scraped key, the i-th
\* key paired with the i-th cost
C24_TablePairsEveryKey ==
    (op = "_get_bonuses_dict" /\ exc = "") =>
        /\ Cardinality(DOMAIN ret) = Len(ScrapedKeys)
        /\ \A i \in 1..Len(ScrapedKeys) :
               /\ i <= Len(ScrapedCosts)
               /\ ScrapedKeys[i] \in DOMAIN ret
               /\ ret[ScrapedKeys[i]] = ScrapedCosts[i]


\* ---- C25: load_bonus_table leaves the tab as it found it

\* C25: when load_bonus_table returns, the tab displayed is the one that
\* was displayed before the call, none when none was
C25_TabRestored ==
    (op = "load_bonus_table" /\ exc = "") => ret.current = env.current


\* ---- C26: the driver is updated when it is older than the latest release

\* the number a field of a version string stands for
RECURSIVE FieldValue(_)
FieldValue(s) == IF s = <<>> THEN 0 ELSE 10 * FieldValue(SubSeq(s, 1, Len(s) - 1)) + (Ord(s[Len(s)]) - 48)

\* the numbers of a version string
Numbers(version) == [i \in 1..Len(SplitOn(version, ".")) |-> FieldValue(SplitOn(version, ".")[i])]

\* a is older than b, number by number
RECURSIVE Older(_, _)
Older(a, b) ==
    IF b = <<>> THEN FALSE
    ELSE IF a = <<>> THEN TRUE
    ELSE IF Head(a) # Head(b) THEN Head(a) < Head(b)
    ELSE Older(Tail(a), Tail(b))

\* the update got to the comparison of the versions of a driver whose
\* version is known
Compared == op = "update" /\ args.url # <<>> /\ env.status = 200 /\ env.version # <<>>

\* C26: an installed driver older than the latest release, number by
\* number, is downloaded anew, and 'not needed' is reported only for a driver
\* that is the same or newer
C26_UpdatesWhenOlder ==
    Compared =>
        LET older == Older(Numbers(env.version), Numbers(lstrip_v(env.tag)))
        IN  /\ older => Has(acts, "download_file")
            /\ (\E i \in 1..Len(log) : log[i].msg = "not needed.") => ~older


\* ---- C27: a download of the wrong size is removed and reported as ''

\* the body was copied to the target, which is a file
Downloaded == op = "download_file" /\ exc = "" /\ Has(acts, "write") /\ env.isfile

\* C27: a download whose file has not the size declared returns '' after
\* os.remove was tried, with a warning when it failed, and a path is
\* returned only for a file of exactly the size declared
C27_WrongSizeRemoved ==
    /\ (Downloaded /\ env.written # env.declared[1]) =>
           /\ ret = <<>>
           /\ \E i \in 1..Len(acts) : acts[i].a = "os.remove"
           /\ (\E i \in 1..Len(log) : log[i].level = 30) <=> ~env.removable
    /\ (op = "download_file" /\ exc = "" /\ ret # <<>>) =>
           /\ Downloaded /\ env.written = env.declared[1]
           /\ ~\E i \in 1..Len(acts) : acts[i].a = "os.remove"

\* two chunks were declared and one was written, and the file could not be
\* removed
C27_Witness ==
    /\ Downloaded /\ env.declared = Some(2) /\ env.written = 1 /\ ~env.removable
    /\ ret = <<>> /\ Len(log) = 2


\* ---- C31: what follows a round that was played and one that was not

\* the step just taken is the one after a played round
AfterPlayed == op = "scenario" /\ Has(acts, "balances")

\* how many events of one name the step just taken has
Count(name) == Cardinality({i \in 1..Len(acts) : acts[i].a = name})

PlayClicks == {i \in 1..Len(acts) : acts[i].a = "play click"}

\* C32: the play button is clicked at most once; with the captcha check on
\* and the captcha not ready it is clicked only when free_play_cost does not
\* exceed balance_rp and the play without captcha is ready; and True is
\* returned only after the click, the result being displayed
C32_PlayClicksOnceIfPaid ==
    op = "play_free_play" =>
        /\ Cardinality(PlayClicks) <= 1
        /\ (args.check_for_captcha /\ ~env.with_captcha /\ PlayClicks # {}) =>
               env.cost <= env.balance_rp /\ env.without_captcha
        /\ PlayClicks # {} => env.ready
        /\ ret = TRUE => PlayClicks # {} /\ env.result

\* a play without captcha that the balance pays was clicked and came out
C32_Witness ==
    /\ op = "play_free_play" /\ args.check_for_captcha /\ ~env.with_captcha
    /\ env.cost = 2 /\ env.balance_rp = 2 /\ PlayClicks # {} /\ ret = TRUE

\* the recorded _active_bonus call found the cost list or the button list
\* shorter than the place of the key it was asked for
Buttons == get_bonus_buttons(PollsFor(ALL, env.buttons))

ShortLists ==
    /\ RedeemAsked
    /\ Costs.exc = ""
    /\ \/ Place > Len(Costs.ret)
       \/ Buttons.exc = "" /\ Place > Len(Buttons.ret)

\* C33: _active_bonus never clicks a redeem button while a bonus of the
\* category is already active (identified or not) or while the key table is
\* empty: it then performs no DOM action and returns the current state (0
\* for no active bonus, None for an unidentified one, the key otherwise);
\* and when the cost list or the button list is shorter than the place of
\* the requested key it performs no click, raises nothing and returns the
\* current state (the key asked for being 0 or a key of the table).
C33_NoClickReturnsCurrent ==
    op = "_active_bonus" =>
        /\ (TableKeys.exc = "" /\ FirstRead.exc = "" /\ TableKeys.ret = <<>>) =>
            (acts = <<>> /\ exc = "" /\ ret = FirstRead.ret)
        /\ (TableKeys.exc = "" /\ FirstRead.exc = "" /\ FirstRead.ret # Some(0)
                /\ args.value \in Range(TableKeys.ret) \cup {0}) =>
            (acts = <<>> /\ exc = "" /\ ret = FirstRead.ret)
        /\ ShortLists => (~ClickMade /\ exc = "" /\ ret = FirstRead.ret)

\* the places of the event name in what the latest stage did
Places(name) == {i \in 1..Len(acts) : acts[i].a = name}

\* C34: on every path of scenario() that returns after the session was
\* created, quit is called exactly once and is the last driver operation of
\* the run (quit and sign_out happen in the stage that returns and in no
\* other, and nothing follows quit in it), and on the normal terminal path,
\* reached after the free plays, sign_out is attempted exactly once,
\* immediately before quit.
C34_QuitOnceAndLast ==
    /\ [](At("returned") =>
            /\ env.driver \in {"none", "quit"}
            /\ env.driver = "none" => (Places("quit") = {} /\ Places("sign_out") = {})
            /\ env.driver = "quit" =>
                /\ Places("quit") = {Len(acts)}
                /\ Cardinality(Places("sign_out")) <= 1
                /\ Places("sign_out") # {} => Places("sign_out") = {Len(acts) - 1})
    /\ [][/\ (Has(acts', "quit") \/ Has(acts', "sign_out")) => (env.pc # "returned" /\ env'.pc = "returned")
          /\ env.driver = "quit" => env'.driver = "quit"
          /\ (env.pc = "sign_out" /\ env'.pc = "returned") =>
                (Len(acts') = 2 /\ acts'[1].a = "sign_out" /\ acts'[2].a = "quit")]_vars

\* a run that played returned after one sign-out followed by quit
C34_Witness ==
    /\ At("returned")
    /\ env.plays > 0
    /\ env.driver = "quit"
    /\ Len(acts) = 2
    /\ acts[1] = Ev("sign_out", TRUE)
    /\ acts[2].a = "quit"
    /\ ret = Some(0)

\* the fields __password and __totp_secret are as they were before the call
Kept == env.password = env.was.password /\ env.totp_secret = env.was.totp_secret

\* C35: the stored credentials are non-empty only between a successful
\* sign_in and the next successful sign_out: a sign_in that failed (or
\* raised) leaves both as they were, a successful one sets them to the
\* password and the secret it was called with, a sign_out that failed leaves
\* both as they were and a successful one clears both.
C35_CredentialsFollowSignIn ==
    op = "faucet" =>
        /\ (env.password # <<>> \/ env.totp_secret # <<>>) => env.signed
        /\ args.call = "sign_in" =>
            IF exc = "" /\ ret = Some(TRUE)
            THEN env.password = args.with.password /\ env.totp_secret = args.with.totp_secret
            ELSE Kept
        /\ args.call = "sign_out" =>
            IF ret = Some(TRUE)
            THEN env.password = <<>> /\ env.totp_secret = <<>>
            ELSE Kept

\* a sign_out that succeeded forgot a password and a secret stored before
C35_Witness ==
    /\ op = "faucet"
    /\ args.call = "sign_out"
    /\ ret = Some(TRUE)
    /\ env.was.password # <<>>
    /\ env.was.totp_secret # <<>>
    /\ env.password = <<>>
    /\ env.totp_secret = <<>>

\* ---- C36: _close_modal is best-effort

\* the modal is displayed when _close_modal looks for it: it is in the DOM
\* and displayed_of_element holds of it
ModalDisplayed ==
    env.modal.present /\ ~env.modal.stale /\ (env.modal.is_displayed \/ env.modal.display # "none")

\* the element n is hidden or removed from the DOM
Gone(n) == ~n.present \/ n.stale \/ ~n.is_displayed \/ n.display = "none"

CloseClicks == {i \in 1..Len(acts) : acts[i].a = "click"}

\* C36: _close_modal clicks the close control only if the modal is displayed
\* and the close control is found inside it, and at most once; otherwise it
\* returns False without a click; it returns True only if after the click
\* the modal is no longer displayed, being hidden or removed from the DOM;
\* and on a missing or hidden modal it raises nothing.
C36_CloseModalBestEffort ==
    op = "_close_modal" =>
        /\ Cardinality(CloseClicks) <= 1
        /\ CloseClicks # {} => (ModalDisplayed /\ env.button # <<>>)
        /\ (~ModalDisplayed \/ env.button = <<>>) => (exc = "" /\ ret = FALSE /\ acts = <<>>)
        /\ (exc = "" /\ ret = TRUE) =>
            (CloseClicks # {} /\ (Gone(env.after) \/ ~env.later.present))
        /\ exc # "" => (ModalDisplayed /\ env.button # <<>> /\ env.button[1].stale)

\* the modal was displayed, its close control was clicked, the modal then
\* stayed displayed through the first wait and was removed during the second
C36_Witness ==
    /\ op = "_close_modal"
    /\ ModalDisplayed
    /\ CloseClicks # {}
    /\ ~Gone(env.after)
    /\ ~env.later.present
    /\ exc = ""
    /\ ret = TRUE

\* ---- C37: is_ready_free_play_with_captcha leaves the captcha frame

\* the places where the recorded call switched to the frame, and back
FrameSwitches == {i \in 1..Len(acts) : acts[i].a = "switch_to.frame"}

DefaultSwitches == {i \in 1..Len(acts) : acts[i].a = "switch_to.default_content"}

\* C37: after is_ready_free_play_with_captcha returns, True or False, the
\* browsing context of the driver is the default content and not the captcha
\* frame: every switch to the frame made by the call is followed by a switch
\* back to the default content before the call returns, and the call
\* switched to the frame exactly when the wait for the frame succeeded.
C37_ReturnsInDefaultContent ==
    (op = "is_ready_free_play_with_captcha" /\ exc = "") =>
        /\ ret \in BOOLEAN
        /\ Context(acts, "default") = "default"
        /\ \A i \in FrameSwitches : \E j \in DefaultSwitches : j > i
        /\ FrameSwitches # {} <=> Until(env.frame).k = "True"

\* the frame was entered, the checkbox was not found in it, and the call
\* returned False from the default content
C37_Witness ==
    /\ op = "is_ready_free_play_with_captcha"
    /\ exc = ""
    /\ ret = FALSE
    /\ FrameSwitches # {}
    /\ env.checkbox = <<>>
    /\ Context(acts, "default") = "default"

\* ---- C38: displayed_of_element and not_displayed_of_element on one element

\* C38: for every state of a present element (is_displayed true or false,
\* css display "none" or not) exactly one of displayed_of_element and
\* not_displayed_of_element holds; no state of the element satisfies both.
C38_ExactlyOneHolds ==
    (op = "displayed_of_element" /\ env.present /\ ~env.stale) =>
        (ret.displayed_of_element <=> ~ret.not_displayed_of_element)

\* ---- C39: the driver updates report by their return value

\* C39: ChromeDriverExecFileOrLink.update and FirefoxDriverExecFileOrLink.update
\* report every outcome as a boolean, False on an empty URL, a response
\* other than 200, a failed download or unpacking and insufficient
\* permissions, True otherwise; no outcome, a missing LICENSE file after
\* unpacking included, is reported by an exception.
C39_UpdateReportsBoolean ==
    op \in {"update", "ChromeDriverExecFileOrLink.update"} =>
        /\ exc = ""
        /\ ret \in BOOLEAN
        /\ (args.url = <<>> \/ env.status # 200) => ret = FALSE
        /\ (ret = TRUE /\ acts # <<>>) => (env.unpacked /\ env.perms = <<"7", "5", "5">>)

====
